---------------------------- MODULE Spec2Model ----------------------------
(***************************************************************************)
(* A model of the AutoGem completion pipeline: the trigger policies of the *)
(* inline and multi-line providers, the line heuristics they consult, the  *)
(* debounce / cache / rate-limit primitives of helpers/utils and the       *)
(* request handlers that use them.                                         *)
(*                                                                         *)
(* Text is modelled as a sequence of one-character strings, so that        *)
(* trimming, endsWith, indexOf and the regular expressions of the source   *)
(* are computed character by character.                                    *)
(***************************************************************************)
EXTENDS Integers, Sequences, FiniteSets, TLC

VARIABLES
    apiKey,           \* settings: autogem.apiKey
    genAI,            \* ModelManager: whether its genAI client is set
    providerDisposable, \* extension: whether the completion providers are registered
    inflight,         \* the request followed from entry to return
    multilineProviderDisposable, \* extension: the multi-line provider's registration
    codeActionsDisposable, \* extension: the code-actions provider's registration
    settings,         \* settings: the autogem.* switches of providers and status bar
    statusBar,        \* StatusBarManager: its item and its messageTimeout
    live,             \* the editor: undisposed registrations of each provider
    callCount,        \* utils: let callCount
    suggestionCache,  \* utils: const suggestionCache (prompt -> suggestion)
    timer,            \* debounce: the pending setTimeout closures (args + resolve)
    pc,               \* per request: where its handler is suspended
    reqPrompt,        \* per request: the prompt text it was built with
    reqMode,          \* per request: the entry point that started it
    reqTrig,          \* per request: index of the editor input it was started with
    reqAdmitted,      \* per request: what rateLimitCheck() returned to it
    build,            \* which extension.ts is activated: current or legacy
    burst,            \* history: the calls of the current debounce group, in order
    fnArgs,           \* history: the calls whose arguments reached the debounced function
    missInWindow,     \* history: lookups that found no entry since the last reset
    trig              \* the input and result of one evaluation of a pure function

\* The registrations beside the inline one, the switches and the status bar.
shellVars ==
    << multilineProviderDisposable, codeActionsDisposable, settings, statusBar,
       live >>

vars == << callCount, suggestionCache, timer, pc, reqPrompt, reqMode, reqTrig,
           reqAdmitted, burst, fnArgs, missInWindow, trig, build, apiKey, genAI,
                    providerDisposable, inflight, shellVars >>

---------------------------------------------------------------------------
(* Bounds of the model *)

MaxReq == 2
NumPrompts == 2
NumValues == 1
MaxFrags == 2
MaxMissCount == 2

(* Program constants *)

MAX_CALLS_PER_MINUTE == 60
DefaultMinTriggerLength == 3

Reqs == 1..MaxReq
Prompts == 1..NumPrompts
Values == 1..NumValues

---------------------------------------------------------------------------
(* Strings as sequences of characters *)

\* Characters a string literal cannot hold are written as a name in angle
\* brackets; each is one character of the text.
VerticalTab == "<u000b>"

NoBreakSpace == "<u00a0>"

ByteOrderMark == "<ufeff>"

LineSeparator == "<u2028>"

ParagraphSeparator == "<u2029>"

\* The space separators of Unicode beside the space and U+00A0.
SpaceSeparators ==
    {"<u1680>", "<u2000>", "<u2001>", "<u2002>", "<u2003>", "<u2004>",
     "<u2005>", "<u2006>", "<u2007>", "<u2008>", "<u2009>", "<u200a>",
     "<u202f>", "<u205f>", "<u3000>"}

\* The line terminators of ECMAScript: what `.` of a regular expression does
\* not match.
LineTerminators == {"\n", "\r", LineSeparator, ParagraphSeparator}

\* What \s of a regular expression matches and trim / trimLeft / trimRight
\* strip: the white space and the line terminators of ECMAScript.
Whitespace ==
    {" ", "\t", VerticalTab, "\f", NoBreakSpace, ByteOrderMark}
        \cup SpaceSeparators \cup LineTerminators

\* The backquote character (a string literal cannot hold it).
Backtick == "<backquote>"

WordChars ==
    {"a","b","c","d","e","f","g","h","i","j","k","l","m","n","o","p","q","r",
     "s","t","u","v","w","x","y","z","A","B","C","D","E","F","G","H","I","J",
     "K","L","M","N","O","P","Q","R","S","T","U","V","W","X","Y","Z",
     "0","1","2","3","4","5","6","7","8","9","_"}

RECURSIVE TrimLeft(_)
TrimLeft(s) ==
    IF s # << >> /\ Head(s) \in Whitespace THEN TrimLeft(Tail(s)) ELSE s

RECURSIVE TrimRight(_)
TrimRight(s) ==
    IF s # << >> /\ s[Len(s)] \in Whitespace
    THEN TrimRight(SubSeq(s, 1, Len(s) - 1))
    ELSE s

Trim(s) == TrimLeft(TrimRight(s))

EndsWith(s, t) ==
    /\ Len(t) <= Len(s)
    /\ SubSeq(s, Len(s) - Len(t) + 1, Len(s)) = t

\* String.prototype.indexOf: the 0-based index of the first occurrence, or -1.
Occurrences(s, t) ==
    { i \in 0..(Len(s) - Len(t)) : SubSeq(s, i + 1, i + Len(t)) = t }

IndexOf(s, t) ==
    IF Occurrences(s, t) = {} THEN -1
    ELSE CHOOSE i \in Occurrences(s, t) : \A j \in Occurrences(s, t) : i <= j

\* String.prototype.substring(0, n) with n clamped to the length.
Substring0(s, n) ==
    SubSeq(s, 1, IF n > Len(s) THEN Len(s) ELSE IF n < 0 THEN 0 ELSE n)

\* (text.match(/c/g) || []).length for a one-character pattern c.
CountChar(s, c) == Cardinality({ i \in 1..Len(s) : s[i] = c })

---------------------------------------------------------------------------
(* Regular expressions, as far as language-features.ts uses them.          *)
(* MatchEnds(re, s, from) is the set of positions (0-based offsets) at     *)
(* which a match of re that starts at a position of `from` can end.        *)

Lit(t)     == [t |-> "lit", s |-> t]
Cls(set)   == [t |-> "cls", c |-> set]
NotCls(set) == [t |-> "ncls", c |-> set]
Star(r)    == [t |-> "star", r |-> r]
Plus(r)    == [t |-> "plus", r |-> r]
Opt(r)     == [t |-> "opt", r |-> r]
Cat(rs)    == [t |-> "cat", rs |-> rs]

RECURSIVE MatchEnds(_, _, _)
RECURSIVE StarEnds(_, _, _)
StarEnds(r, s, from) ==
    LET more == MatchEnds(r, s, from) \ from
    IN  IF more = {} THEN from ELSE StarEnds(r, s, from \cup more)

MatchEnds(re, s, from) ==
    CASE re.t = "lit" ->
            { i + Len(re.s) : i \in { j \in from : j + Len(re.s) <= Len(s)
                                       /\ SubSeq(s, j + 1, j + Len(re.s)) = re.s } }
      [] re.t = "cls" ->
            { i + 1 : i \in { j \in from : j < Len(s) /\ s[j + 1] \in re.c } }
      [] re.t = "ncls" ->
            { i + 1 : i \in { j \in from : j < Len(s) /\ s[j + 1] \notin re.c } }
      [] re.t = "star" -> StarEnds(re.r, s, from)
      [] re.t = "plus" -> StarEnds(re.r, s, MatchEnds(re.r, s, from))
      [] re.t = "opt"  -> from \cup MatchEnds(re.r, s, from)
      [] re.t = "cat"  ->
            IF re.rs = << >> THEN from
            ELSE MatchEnds(Cat(Tail(re.rs)), s, MatchEnds(Head(re.rs), s, from))

\* re.test(s) for a pattern of the form /...$/ : some start, ending at the end.
SearchToEnd(re, s) == Len(s) \in MatchEnds(re, s, 0..Len(s))

WsStar == Star(Cls(Whitespace))
WsPlus == Plus(Cls(Whitespace))
WordPlus == Plus(Cls(WordChars))

\* /function\s*\([^)]*\)\s*{?\s*$/
ReJsFunction ==
    Cat(<< Lit(<<"f","u","n","c","t","i","o","n">>), WsStar, Lit(<<"(">>),
           Star(NotCls({")"})), Lit(<<")">>), WsStar, Opt(Lit(<<"{">>)), WsStar >>)

\* /class\s+\w+(\s+extends\s+\w+)?\s*{?\s*$/
ReJsClass ==
    Cat(<< Lit(<<"c","l","a","s","s">>), WsPlus, WordPlus,
           Opt(Cat(<< WsPlus, Lit(<<"e","x","t","e","n","d","s">>), WsPlus, WordPlus >>)),
           WsStar, Opt(Lit(<<"{">>)), WsStar >>)

\* /def\s+\w+\s*\([^)]*\)\s*:\s*$/
RePyDef ==
    Cat(<< Lit(<<"d","e","f">>), WsPlus, WordPlus, WsStar, Lit(<<"(">>),
           Star(NotCls({")"})), Lit(<<")">>), WsStar, Lit(<<":">>), WsStar >>)

\* /class\s+\w+(\s*\([^)]*\))?\s*:\s*$/
RePyClass ==
    Cat(<< Lit(<<"c","l","a","s","s">>), WsPlus, WordPlus,
           Opt(Cat(<< WsStar, Lit(<<"(">>), Star(NotCls({")"})), Lit(<<")">>) >>)),
           WsStar, Lit(<<":">>), WsStar >>)

\* /\)\s*{?\s*$/
ReJavaMethod ==
    Cat(<< Lit(<<")">>), WsStar, Opt(Lit(<<"{">>)), WsStar >>)

\* /class\s+\w+(\s+extends\s+\w+)?(\s+implements\s+\w+)?\s*{?\s*$/
ReJavaClass ==
    Cat(<< Lit(<<"c","l","a","s","s">>), WsPlus, WordPlus,
           Opt(Cat(<< WsPlus, Lit(<<"e","x","t","e","n","d","s">>), WsPlus, WordPlus >>)),
           Opt(Cat(<< WsPlus, Lit(<<"i","m","p","l","e","m","e","n","t","s">>),
                      WsPlus, WordPlus >>)),
           WsStar, Opt(Lit(<<"{">>)), WsStar >>)

---------------------------------------------------------------------------
(* LanguageFeatures *)

SlashCommentLangs ==
    {"javascript", "typescript", "java", "c", "cpp", "csharp", "go", "rust",
     "swift", "php"}
HashCommentLangs == {"python", "ruby", "shell", "bash", "yaml"}
MarkupLangs == {"html", "xml"}
QuoteLangs ==
    {"javascript", "typescript", "java", "c", "cpp", "csharp", "go", "rust",
     "swift", "php", "python", "ruby"}

isPositionInComment(languageId, line, character) ==
    IF languageId \in SlashCommentLangs
    THEN LET singleCommentPos == IndexOf(line, <<"/", "/">>)
         IN  singleCommentPos >= 0 /\ character > singleCommentPos
    ELSE IF languageId \in HashCommentLangs
    THEN LET hashCommentPos == IndexOf(line, <<"#">>)
         IN  hashCommentPos >= 0 /\ character > hashCommentPos
    ELSE IF languageId \in MarkupLangs
    THEN LET htmlCommentStart == IndexOf(line, <<"<", "!", "-", "-">>)
             htmlCommentEnd == IndexOf(line, <<"-", "-", ">">>)
         IN  /\ htmlCommentStart >= 0
             /\ character > htmlCommentStart
             /\ (htmlCommentEnd < 0 \/ character < htmlCommentEnd)
    ELSE FALSE

isPositionInString(languageId, line, character) ==
    LET textBeforeCursor == Substring0(line, character)
    IN  IF languageId \in QuoteLangs
        THEN \/ CountChar(textBeforeCursor, "'") % 2 # 0
             \/ CountChar(textBeforeCursor, "\"") % 2 # 0
             \/ CountChar(textBeforeCursor, Backtick) % 2 # 0
        ELSE FALSE

isAppropriateMultilineLocation(languageId, currentLineText) ==
    LET trimmedLine == Trim(currentLineText)
    IN  IF languageId \in {"javascript", "typescript"}
        THEN \/ EndsWith(trimmedLine, <<"{">>)
             \/ EndsWith(trimmedLine, <<"=", ">">>)
             \/ EndsWith(trimmedLine, <<"=", ">", " ", "{">>)
             \/ SearchToEnd(ReJsFunction, trimmedLine)
             \/ SearchToEnd(ReJsClass, trimmedLine)
        ELSE IF languageId = "python"
        THEN \/ EndsWith(trimmedLine, <<":">>)
             \/ SearchToEnd(RePyDef, trimmedLine)
             \/ SearchToEnd(RePyClass, trimmedLine)
        ELSE IF languageId \in {"java", "kotlin", "c", "cpp", "csharp"}
        THEN \/ EndsWith(trimmedLine, <<"{">>)
             \/ SearchToEnd(ReJavaMethod, trimmedLine)
             \/ SearchToEnd(ReJavaClass, trimmedLine)
        ELSE EndsWith(trimmedLine, <<"{">>) \/ EndsWith(trimmedLine, <<":">>)

---------------------------------------------------------------------------
(* Trigger policies *)

Invoke == "Invoke"
Automatic == "Automatic"
TriggerKinds == {Invoke, Automatic}

EndsWithAny(s, list) == \E i \in 1..Len(list) : EndsWith(s, list[i])

\* config.get("triggerCharacters", [".", "(", "{"])
DefaultTriggerCharacters == << <<".">>, <<"(">>, <<"{">> >>

\* config.get("multilineTriggers", ["{", ":", "=>", "->", "do", "then"])
DefaultMultilineTriggers ==
    << <<"{">>, <<":">>, <<"=", ">">>, <<"-", ">">>, <<"d", "o">>,
       <<"t", "h", "e", "n">> >>

\* InlineCompletionProvider.getContextData: the fields the trigger policy reads.
InlineContextData(languageId, line, character) ==
    [ currentLine |-> line,
      isInComment |-> isPositionInComment(languageId, line, character),
      isInString  |-> isPositionInString(languageId, line, character) ]

\* The same decision with the comment test dropped.
shouldTriggerCompletionNoCommentSkip(contextData, triggerKind, cfg) ==
    IF cfg.skipInStrings /\ contextData.isInString THEN FALSE
    ELSE IF triggerKind = Invoke THEN TRUE
    ELSE \/ EndsWithAny(TrimRight(contextData.currentLine), cfg.triggerCharacters)
         \/ Len(Trim(contextData.currentLine)) >= cfg.minTriggerLength

shouldTriggerCompletion(contextData, triggerKind, cfg) ==
    IF cfg.skipInComments /\ contextData.isInComment THEN FALSE
    ELSE IF cfg.skipInStrings /\ contextData.isInString THEN FALSE
    ELSE LET currentLine == contextData.currentLine
             endsWithTrigger ==
                 EndsWithAny(TrimRight(currentLine), cfg.triggerCharacters)
         IN  IF triggerKind = Invoke THEN TRUE
             ELSE IF endsWithTrigger THEN TRUE
             ELSE IF triggerKind = Automatic
                     /\ Len(Trim(currentLine)) >= cfg.minTriggerLength
             THEN TRUE
             ELSE FALSE

\* MultilineCompletionProvider.getContextData: the fields the policy reads.
\* currentLine is taken before `await this.getProjectContext(document)`, the
\* comment and string tests read the document after it: line is the cursor
\* line at the call, liveLine the same line of the document when the await
\* resumes (another text if the document was edited in between).
MultilineContextData(languageId, line, liveLine, character) ==
    [ currentLineText |-> line,
      isInComment |-> isPositionInComment(languageId, liveLine, character),
      isInString  |-> isPositionInString(languageId, liveLine, character) ]

\* shouldTriggerMultilineCompletion without its comment and string test.
shouldTriggerMultilineAnywhere(contextData, languageId) ==
    isAppropriateMultilineLocation(languageId, contextData.currentLineText)

\* MultilineCompletionProvider.shouldTriggerMultilineCompletion
shouldTriggerMultilineCompletion(contextData, languageId) ==
    IF contextData.isInComment \/ contextData.isInString THEN FALSE
    ELSE isAppropriateMultilineLocation(languageId, contextData.currentLineText)

\* The trigger-token test, always passed.
MultilineTokenCheckSkipped(line, triggerKind, multilineTriggers) == TRUE

\* MultilineCompletionProvider.provideInlineCompletionItems, its first test:
\* FALSE when the handler returns null before it builds any context.
MultilineTokenCheck(line, triggerKind, multilineTriggers) ==
    IF triggerKind # Invoke
    THEN EndsWithAny(TrimRight(line), multilineTriggers)
    ELSE TRUE

\* MultilineCompletionProvider.provideInlineCompletionItems up to the call of
\* modelManager.getMultilineCompletions: "request" when the call is made,
\* "null" when the handler returns null before it.
MultilineDecision(languageId, line, liveLine, character, triggerKind, triggers) ==
    IF ~MultilineTokenCheck(line, triggerKind, triggers)
    THEN "null"
    ELSE IF ~shouldTriggerMultilineCompletion(
                MultilineContextData(languageId, line, liveLine, character),
                languageId)
    THEN "null"
    ELSE "request"

---------------------------------------------------------------------------
(* Inputs of the trigger-policy specifications: a line is a concatenation  *)
(* of at most MaxFrags fragments, the cursor stands at a fragment border.  *)

InlineFrags ==
    { <<" ">>, <<"x">>, <<"f", "o", "o">>, <<".">>, <<"/", "/">>, <<"#">>,
      <<"\"">> }

MultilineFrags ==
    { <<" ">>, <<"F", "o", "o">>, <<"f","u","n","c","t","i","o","n">>,
      <<"c","l","a","s","s"," ">>, <<"(", ")">>, <<"{">>, <<":">>, <<"=", ">">>,
      <<"/", "/">>, <<"\"">> }

FragSeqs(F) == UNION { [1..n -> F] : n \in 0..MaxFrags }

RECURSIVE Flatten(_)
Flatten(fs) == IF fs = << >> THEN << >> ELSE Head(fs) \o Flatten(Tail(fs))

InlineLangs == {"typescript", "python", "plaintext"}
MultilineLangs == {"typescript", "python", "java", "plaintext"}

MinTriggerLengths == {0, 1, DefaultMinTriggerLength}

NoTrig == [phase |-> "none"]

\* The lines over F with the cursor positions at their fragment borders.
LinePositions(F) ==
    UNION { { [ line |-> Flatten(fs),
                character |-> Len(Flatten(SubSeq(fs, 1, k))) ] : k \in 0..Len(fs) } :
            fs \in FragSeqs(F) }

InlineTrigInputs ==
    { [ phase |-> "input", policy |-> "inline",
        lang |-> l, line |-> lp.line, character |-> lp.character,
        kind |-> kd, skipInComments |-> sc, skipInStrings |-> ss,
        minTriggerLength |-> m, fire |-> FALSE ] :
      l \in InlineLangs, lp \in LinePositions(InlineFrags),
      kd \in TriggerKinds, sc \in BOOLEAN, ss \in BOOLEAN,
      m \in MinTriggerLengths }

\* What an edit made while the handler awaits may leave on the cursor line.
EditedLines == << <<"f", "o", "o", ";">>, <<"/", "/", " ", "a">> >>

\* The cursor line when the await resumes: the line itself (e = 0, no edit
\* during the await) or an edited one.
LiveLine(line, e) == IF e = 0 THEN line ELSE EditedLines[e]

MultilineTrigInputs ==
    { [ phase |-> "input", policy |-> "multiline",
        lang |-> l, line |-> lp.line, liveLine |-> LiveLine(lp.line, e),
        character |-> lp.character,
        kind |-> kd, triggers |-> tr, outcome |-> "null" ] :
      l \in MultilineLangs, lp \in LinePositions(MultilineFrags),
      e \in 0..Len(EditedLines), kd \in TriggerKinds,
      tr \in { DefaultMultilineTriggers, << <<"{">> >> } }

TrigConfig(t) ==
    [ skipInComments |-> t.skipInComments, skipInStrings |-> t.skipInStrings,
      triggerCharacters |-> DefaultTriggerCharacters,
      minTriggerLength |-> t.minTriggerLength ]

---------------------------------------------------------------------------
(* helpers/utils: debounce, the suggestion cache, the rate limiter *)

NoValue == 0
NoPrompt == 0

\* debounce without the clearTimeout of the pending timer.
DebounceScheduleNoClear(timers, call) == timers \cup {call}

\* debounce: if (timer) clearTimeout(timer); timer = setTimeout(..., delay)
DebounceSchedule(timers, call) == {call}

\* rateLimitCheck with the comparison off by one.
rateLimitCheckOffByOne(count) ==
    IF count > MAX_CALLS_PER_MINUTE
    THEN [ok |-> FALSE, count |-> count]
    ELSE [ok |-> TRUE, count |-> count + 1]

\* rateLimitCheck: the value returned and the counter afterwards.
rateLimitCheck(count) ==
    IF count >= MAX_CALLS_PER_MINUTE
    THEN [ok |-> FALSE, count |-> count]
    ELSE [ok |-> TRUE, count |-> count + 1]

Call(r, p) == [req |-> r, prompt |-> p]

\* A request ends: its slot is free for the next request.
Release(r) ==
    /\ pc' = [pc EXCEPT ![r] = "idle"]
    /\ reqPrompt' = [reqPrompt EXCEPT ![r] = NoPrompt]
    /\ reqMode' = [reqMode EXCEPT ![r] = "none"]
    /\ reqTrig' = [reqTrig EXCEPT ![r] = 0]

\* debouncedGenerateSuggestion(prompt, model, token) called by request r: the
\* new timer replaces the pending one, whose promise then never settles.
DebouncedCall(r, p) ==
    /\ timer' = DebounceSchedule(timer, Call(r, p))
    /\ pc' = [ q \in Reqs |->
                 IF q = r THEN "debounce"
                 ELSE IF pc[q] = "debounce" /\ Call(q, reqPrompt[q]) \notin timer'
                 THEN "orphan"
                 ELSE pc[q] ]
    /\ reqPrompt' = [reqPrompt EXCEPT ![r] = p]
    /\ burst' = IF timer = {} THEN << Call(r, p) >> ELSE Append(burst, Call(r, p))
    /\ fnArgs' = IF timer = {} THEN << >> ELSE fnArgs

\* getCachedSuggestion: `suggestionCache.has(key)` finds no entry. The count
\* of such lookups since the last reset, kept up to MaxMissCount.
CountMiss(p) ==
    IF suggestionCache[p] = NoValue /\ missInWindow < MaxMissCount
    THEN missInWindow + 1
    ELSE missInWindow

\* getCachedSuggestion(prompt, model, token) up to its first await, for a
\* request r in mode m: a cached prompt returns at once, any other prompt goes
\* through the debounced generation.
GetCached(r, p, m) ==
    /\ missInWindow' = CountMiss(p)
    /\ IF suggestionCache[p] # NoValue
       THEN /\ Release(r)
            /\ UNCHANGED << suggestionCache, timer, burst, fnArgs >>
       ELSE /\ DebouncedCall(r, p)
            /\ reqMode' = [reqMode EXCEPT ![r] = m]
            /\ reqTrig' = [reqTrig EXCEPT ![r] = 0]
            /\ UNCHANGED suggestionCache

\* The debounce timer of call c expires: generateSuggestion runs with the
\* arguments of c and awaits model.generateContent.
TimerFire(c) ==
    /\ c \in timer
    /\ timer' = timer \ {c}
    /\ pc' = [pc EXCEPT ![c.req] = "upstream"]
    /\ fnArgs' = Append(fnArgs, c)
    /\ UNCHANGED << callCount, suggestionCache, reqPrompt, reqMode, reqTrig,
                    reqAdmitted, burst, missInWindow, trig, build, apiKey, genAI,
                    providerDisposable, inflight, shellVars >>

\* A generation call settles: the record kept of the last debounce group is
\* dropped unless a new group is pending.
GroupSettled ==
    /\ burst' = IF timer = {} THEN << >> ELSE burst
    /\ fnArgs' = IF timer = {} THEN << >> ELSE fnArgs

\* The upstream call of request r answers with text v: getCachedSuggestion
\* stores it under the prompt and the handler returns it to its caller.
UpstreamReturn(r, v) ==
    /\ pc[r] = "upstream"
    /\ suggestionCache' = [suggestionCache EXCEPT ![reqPrompt[r]] = v]
    /\ Release(r)
    /\ reqAdmitted' = [reqAdmitted EXCEPT ![r] = "none"]
    /\ GroupSettled
    /\ UNCHANGED << callCount, timer, missInWindow, trig, build, apiKey, genAI,
                    providerDisposable, inflight, shellVars >>

\* setInterval(() => { callCount = 0 }, 60000)
ResetInterval ==
    /\ callCount' = 0
    /\ missInWindow' = 0
    /\ UNCHANGED << suggestionCache, timer, pc, reqPrompt, reqMode, reqTrig,
                    reqAdmitted, burst, fnArgs, trig, build, apiKey, genAI,
                    providerDisposable, inflight, shellVars >>

\* What a request remembers of the boolean rateLimitCheck() returned to it.
Admission(ok) == IF ok THEN "admitted" ELSE "refused"

\* A client calls the exported getCachedSuggestion directly.
GetCachedSuggestionCall(r, p) ==
    /\ pc[r] = "idle"
    /\ GetCached(r, p, "utils")
    /\ UNCHANGED << callCount, reqAdmitted, trig, build, apiKey, genAI,
                    providerDisposable, inflight, shellVars >>

\* A client calls the exported rateLimitCheck directly.
RateLimitCheckCall(r) ==
    /\ pc[r] = "idle"
    /\ callCount' = rateLimitCheck(callCount).count
    /\ reqAdmitted' = [reqAdmitted EXCEPT ![r] = Admission(rateLimitCheck(callCount).ok)]
    /\ UNCHANGED << suggestionCache, timer, pc, reqPrompt, reqMode, reqTrig,
                    burst, fnArgs, missInWindow, trig, build, apiKey, genAI,
                    providerDisposable, inflight, shellVars >>

---------------------------------------------------------------------------
(* The extension as activated: its settings, its status bar, its providers *)

\* The two extension.ts of the repository: the current one, with its inline
\* and multi-line providers and its commands, and the first version, with its
\* single inline provider.
Builds == {"current", "legacy"}

\* The values of the apiKey setting: unset or empty, blank, set.
ApiKeys == { << >>, << " " >>, << "k" >> }

\* !apiKey || apiKey.trim() === ""
IsBlank(key) == key = << >> \/ Trim(key) = << >>

\* No request in flight.
NoRequest ==
    [ mode |-> "none", at |-> "idle", prompt |-> NoPrompt, token |-> FALSE,
      blank |-> FALSE, cancelledAt |-> "none", answer |-> "none",
      quota |-> FALSE, value |-> NoValue, delivered |-> "none",
      result |-> "none", calls |-> 0 ]

\* The switches read by registerProviders and by StatusBarManager.update, at
\* their defaults, and every setting of them.
DefaultSettings ==
    [ enableMultilineCompletions |-> TRUE, enableCodeActions |-> TRUE,
      showStatusBar |-> TRUE ]

SettingsChoices ==
    [ enableMultilineCompletions : BOOLEAN, enableCodeActions : BOOLEAN,
      showStatusBar : BOOLEAN ]

\* The texts the status bar item is given.
EnabledText == "$(sparkle) AutoGem"

DisabledText == "$(circle-slash) AutoGem"

RateLimitText == "Rate limit exceeded"

\* StatusBarManager.toggle: statusBarItem.text.includes("circle-slash"), over
\* the texts above and the empty text of a new item.
IsDisabledText(text) == text = DisabledText

\* The StatusBarManager before its constructor calls update.
NewStatusBar ==
    [ text |-> "", shown |-> FALSE, messageTimeout |-> FALSE,
      disposed |-> FALSE ]

\* StatusBarManager.update under the switches s.
StatusBarUpdate(sb, s, isEnabled) ==
    IF ~s.showStatusBar
    THEN [sb EXCEPT !.shown = FALSE]
    ELSE [sb EXCEPT !.text = IF isEnabled THEN EnabledText ELSE DisabledText,
                    !.shown = TRUE]

\* StatusBarManager.showMessage: the text is the message from then on, the
\* item is shown and the timer that hides it is set anew.
StatusBarShowMessage(sb, message) ==
    [sb EXCEPT !.text = message, !.shown = TRUE, !.messageTimeout = TRUE]

\* The three module variables of the extension and the registrations the
\* editor holds, before anything is registered.
NoProviders ==
    [ providerDisposable |-> FALSE, multilineProviderDisposable |-> FALSE,
      codeActionsDisposable |-> FALSE,
      live |-> [inline |-> 0, multiline |-> 0, codeActions |-> 0] ]

\* The first version registers the inline provider only.
registerInline(r) ==
    [r EXCEPT !.providerDisposable = TRUE, !.live.inline = @ + 1]

\* registerProviders: each registration made is assigned over what the
\* variable held; the two optional ones are made only if their switch is on.
registerProviders(r, s) ==
    [ providerDisposable |-> TRUE,
      multilineProviderDisposable |->
          IF s.enableMultilineCompletions THEN TRUE
          ELSE r.multilineProviderDisposable,
      codeActionsDisposable |->
          IF s.enableCodeActions THEN TRUE ELSE r.codeActionsDisposable,
      live |-> [ inline |-> r.live.inline + 1,
                 multiline |-> IF s.enableMultilineCompletions
                               THEN r.live.multiline + 1
                               ELSE r.live.multiline,
                 codeActions |-> IF s.enableCodeActions
                                 THEN r.live.codeActions + 1
                                 ELSE r.live.codeActions ] ]

\* activate() beside the inline provider: the status bar is constructed, the
\* providers are registered under the switches, the status bar is updated.
ActivatedShell ==
    \E r \in { IF build = "current" THEN registerProviders(NoProviders, settings)
               ELSE registerInline(NoProviders) } :
        /\ multilineProviderDisposable = r.multilineProviderDisposable
        /\ codeActionsDisposable = r.codeActionsDisposable
        /\ live = r.live
        /\ statusBar =
               IF build = "current"
               THEN StatusBarUpdate(StatusBarUpdate(NewStatusBar, settings, TRUE),
                                    settings, TRUE)
               ELSE NewStatusBar

\* activate(): the providers are registered and, in the current version, the
\* model manager is initialised from the key configured at that time.
Activated ==
    /\ providerDisposable = TRUE
    /\ genAI = (build = "current" /\ ~IsBlank(apiKey))
    /\ inflight = NoRequest
    /\ settings = DefaultSettings
    /\ ActivatedShell

\* The extension activated with a key configured and no request in flight.
KeyConfigured ==
    /\ apiKey = << "k" >>
    /\ Activated

---------------------------------------------------------------------------
(* The completion handlers of the extension *)

\* The upstream call of request r rejects: generateSuggestion and
\* getCachedSuggestion reject with it before suggestionCache.set, and the
\* request is over. The inline provider of the current version hands the
\* error to handleError, which shows a message in the status bar when the
\* error names a rate limit or a quota (quota = TRUE).
UpstreamFail(r, quota) ==
    /\ pc[r] = "upstream"
    /\ Release(r)
    /\ reqAdmitted' = [reqAdmitted EXCEPT ![r] = "none"]
    /\ statusBar' = IF build = "current" /\ reqMode[r] = "inline" /\ quota
                    THEN StatusBarShowMessage(statusBar, RateLimitText)
                    ELSE statusBar
    /\ GroupSettled
    /\ UNCHANGED << callCount, suggestionCache, timer,
                    missInWindow, trig, build, apiKey, genAI,
                    providerDisposable, inflight, multilineProviderDisposable,
                    codeActionsDisposable, settings, live >>

\* The timer set by showMessage expires: the item is hidden.
MessageTimeout ==
    /\ statusBar.messageTimeout
    /\ statusBar' = [statusBar EXCEPT !.shown = FALSE,
                                      !.messageTimeout = FALSE]
    /\ UNCHANGED << callCount, suggestionCache, timer, build, apiKey, genAI,
                    providerDisposable, inflight, multilineProviderDisposable,
                    codeActionsDisposable, settings, live >>
    /\ UNCHANGED << pc, reqPrompt, reqMode, reqTrig, reqAdmitted, burst, fnArgs,
                    missInWindow, trig >>

\* The settings as the handlers read them when none is changed.
DefaultConfig ==
    [ skipInComments |-> TRUE, skipInStrings |-> FALSE,
      triggerCharacters |-> DefaultTriggerCharacters,
      minTriggerLength |-> DefaultMinTriggerLength ]

\* The editor inputs of the handlers: language, current line, cursor column
\* and trigger kind.
PipelineInputs ==
    << [ lang |-> "typescript", line |-> <<"f", "o", "o", " ", "{">>,
         character |-> 5, kind |-> Automatic ],
       [ lang |-> "typescript", line |-> <<"/", "/", " ", "{">>,
         character |-> 4, kind |-> Automatic ] >>

InputIds == 1..Len(PipelineInputs)

\* The trigger decision of the inline handler for the request made with input
\* i (language, cursor position, trigger kind) when the cursor line of the
\* document read by getContextData is the line of input j.
InlineFires(i, j) ==
    LET x == PipelineInputs[i]
    IN  shouldTriggerCompletion(
            InlineContextData(x.lang, PipelineInputs[j].line, x.character),
            x.kind, DefaultConfig)

\* A cache-miss completion request: its trigger fires and its prompt has no
\* entry in the cache.
IsCacheMiss(p, fires) == fires /\ suggestionCache[p] = NoValue

\* InlineCompletionProvider.provideInlineCompletionItems up to
\* `await this.getContextData(...)`: a blank key or a language that
\* enabledLanguages leaves out (enabled = FALSE) returns [] at once; then the
\* rate limiter is consulted, and its refusal is shown in the status bar.
\* p and i are the document at the call: the prompt its text makes and the
\* cursor line, position and trigger kind.
InlineRequest(r, p, i, enabled) ==
    /\ build = "current"
    /\ pc[r] = "idle"
    /\ IF IsBlank(apiKey) \/ ~enabled
       THEN /\ reqAdmitted' = [reqAdmitted EXCEPT ![r] = "none"]
            /\ UNCHANGED << callCount, pc, reqPrompt, reqMode, reqTrig,
                            statusBar >>
       ELSE /\ callCount' = rateLimitCheck(callCount).count
            /\ reqAdmitted' =
                 [reqAdmitted EXCEPT ![r] = Admission(rateLimitCheck(callCount).ok)]
            /\ IF rateLimitCheck(callCount).ok
               THEN /\ pc' = [pc EXCEPT ![r] = "context"]
                    /\ reqPrompt' = [reqPrompt EXCEPT ![r] = p]
                    /\ reqMode' = [reqMode EXCEPT ![r] = "inline"]
                    /\ reqTrig' = [reqTrig EXCEPT ![r] = i]
                    /\ UNCHANGED statusBar
               ELSE /\ statusBar' = StatusBarShowMessage(statusBar, RateLimitText)
                    /\ UNCHANGED << pc, reqPrompt, reqMode, reqTrig >>
    /\ UNCHANGED << suggestionCache, timer, burst, fnArgs, missInWindow, trig,
                    build, apiKey, genAI, providerDisposable, inflight,
                    multilineProviderDisposable, codeActionsDisposable,
                    settings, live >>

\* The inline handler resumes after `await this.getProjectContext(...)`:
\* getContextData reads the context text, the cursor line and the comment and
\* string state from the document as it is then, with prompt p and the cursor
\* line of input j (the request's own p and i when the document was not
\* edited during the await). Then the trigger policy, then
\* modelManager.getInlineCompletions and getCachedSuggestion, which is where
\* the request turns out to be a cache hit or a cache miss.
InlineResume(r, p, j) ==
    /\ build = "current"
    /\ pc[r] = "context"
    /\ reqMode[r] = "inline"
    /\ IF InlineFires(reqTrig[r], j)
       THEN /\ GetCached(r, p, "inline")
            /\ reqAdmitted' =
                 IF suggestionCache[p] # NoValue
                 THEN [reqAdmitted EXCEPT ![r] = "none"]
                 ELSE reqAdmitted
       ELSE /\ Release(r)
            /\ reqAdmitted' = [reqAdmitted EXCEPT ![r] = "none"]
            /\ UNCHANGED << suggestionCache, timer, burst, fnArgs,
                            missInWindow >>
    /\ UNCHANGED << callCount, trig, build, apiKey, genAI,
                    providerDisposable, inflight, shellVars >>

\* The inline provider of the first version of the extension: rateLimitCheck,
\* then getCachedSuggestion, with no await in between; a refused request
\* returns before any lookup.
LegacyRequest(r, p) ==
    /\ build = "legacy"
    /\ pc[r] = "idle"
    /\ callCount' = rateLimitCheck(callCount).count
    /\ IF rateLimitCheck(callCount).ok
       THEN /\ GetCached(r, p, "legacy")
            /\ reqAdmitted' =
                 [reqAdmitted EXCEPT ![r] =
                    IF suggestionCache[p] # NoValue THEN "none"
                    ELSE Admission(TRUE)]
       ELSE /\ reqAdmitted' = [reqAdmitted EXCEPT ![r] = Admission(FALSE)]
            /\ UNCHANGED << suggestionCache, timer, pc, reqPrompt, reqMode,
                            reqTrig, burst, fnArgs, missInWindow >>
    /\ UNCHANGED << trig, build, apiKey, genAI,
                    providerDisposable, inflight, shellVars >>

\* MultilineCompletionProvider.provideInlineCompletionItems up to
\* `await this.getContextData(...)`: only the trigger-token test.
MultilineRequest(r, p, i) ==
    /\ build = "current"
    /\ pc[r] = "idle"
    /\ MultilineTokenCheck(PipelineInputs[i].line, PipelineInputs[i].kind,
                           DefaultMultilineTriggers)
    /\ pc' = [pc EXCEPT ![r] = "context"]
    /\ reqPrompt' = [reqPrompt EXCEPT ![r] = p]
    /\ reqMode' = [reqMode EXCEPT ![r] = "multiline"]
    /\ reqTrig' = [reqTrig EXCEPT ![r] = i]
    /\ reqAdmitted' = [reqAdmitted EXCEPT ![r] = "none"]
    /\ UNCHANGED << callCount, suggestionCache, timer, burst, fnArgs,
                    missInWindow, trig, build, apiKey, genAI,
                    providerDisposable, inflight, shellVars >>

\* The multi-line handler resumes with its context data; the cursor line of
\* the document is then the line of input j (j is the request's own input
\* when the document was not edited during the await).
MultilineResume(r, j) ==
    /\ build = "current"
    /\ pc[r] = "context"
    /\ reqMode[r] = "multiline"
    /\ LET x == PipelineInputs[reqTrig[r]]
       IN  IF shouldTriggerMultilineCompletion(
                  MultilineContextData(x.lang, x.line, PipelineInputs[j].line,
                                       x.character), x.lang)
           THEN GetCached(r, reqPrompt[r], "multiline")
           ELSE /\ Release(r)
                /\ UNCHANGED << suggestionCache, timer, burst, fnArgs,
                                missInWindow >>
    /\ UNCHANGED << callCount, reqAdmitted, trig, build, apiKey, genAI,
                    providerDisposable, inflight, shellVars >>

\* generateDocumentation / explainCode: ModelManager calls
\* model.generateContent at once, with no cache, debounce or rate limiter.
DirectRequest(r, m) ==
    /\ build = "current"
    /\ pc[r] = "idle"
    /\ m \in {"doc", "explain"}
    /\ pc' = [pc EXCEPT ![r] = "direct"]
    /\ reqMode' = [reqMode EXCEPT ![r] = m]
    /\ reqAdmitted' = [reqAdmitted EXCEPT ![r] = "none"]
    /\ UNCHANGED << callCount, suggestionCache, timer, reqPrompt, reqTrig,
                    burst, fnArgs, missInWindow, trig, build, apiKey, genAI,
                    providerDisposable, inflight, shellVars >>

\* The answer to a documentation or explanation request arrives.
DirectReturn(r) ==
    /\ build = "current"
    /\ pc[r] = "direct"
    /\ Release(r)
    /\ UNCHANGED << callCount, suggestionCache, timer, reqAdmitted, burst,
                    fnArgs, missInWindow, trig, build, apiKey, genAI,
                    providerDisposable, inflight, shellVars >>

---------------------------------------------------------------------------
(* Specifications *)

\* helpers/utils as loaded: no call counted, nothing cached, no timer pending.
UtilsLoaded ==
    /\ callCount = 0
    /\ suggestionCache = [p \in Prompts |-> NoValue]
    /\ timer = {}
    /\ pc = [r \in Reqs |-> "idle"]
    /\ reqPrompt = [r \in Reqs |-> NoPrompt]
    /\ reqMode = [r \in Reqs |-> "none"]
    /\ reqTrig = [r \in Reqs |-> 0]
    /\ reqAdmitted = [r \in Reqs |-> "none"]
    /\ burst = << >>
    /\ fnArgs = << >>
    /\ missInWindow = 0

Init ==
    /\ UtilsLoaded
    /\ trig = NoTrig
    /\ build \in Builds
    /\ KeyConfigured

InitUtils ==
    /\ UtilsLoaded
    /\ trig = NoTrig
    /\ build = "current"
    /\ KeyConfigured

\* The extension: every completion mode, the debounce timer, the upstream
\* answers and the periodic reset.
Next ==
    \/ \E r \in Reqs, p \in Prompts, i \in InputIds, enabled \in BOOLEAN :
          InlineRequest(r, p, i, enabled)
    \/ \E r \in Reqs, p \in Prompts, j \in InputIds : InlineResume(r, p, j)
    \/ \E r \in Reqs, p \in Prompts : LegacyRequest(r, p)
    \/ \E r \in Reqs, p \in Prompts, i \in InputIds : MultilineRequest(r, p, i)
    \/ \E r \in Reqs, j \in InputIds : MultilineResume(r, j)
    \/ \E r \in Reqs, m \in {"doc", "explain"} : DirectRequest(r, m)
    \/ \E r \in Reqs : DirectReturn(r)
    \/ \E c \in timer : TimerFire(c)
    \/ \E r \in Reqs, v \in Values : UpstreamReturn(r, v)
    \/ \E r \in Reqs, quota \in BOOLEAN : UpstreamFail(r, quota)
    \/ MessageTimeout
    \/ ResetInterval

Spec == Init /\ [][Next]_vars

\* helpers/utils on its own, its cache and debounce driven by direct calls.
NextDebounce ==
    \/ \E r \in Reqs, p \in Prompts : GetCachedSuggestionCall(r, p)
    \/ \E c \in timer : TimerFire(c)
    \/ \E r \in Reqs, v \in Values : UpstreamReturn(r, v)
    \/ \E r \in Reqs, quota \in BOOLEAN : UpstreamFail(r, quota)

SpecDebounce == InitUtils /\ [][NextDebounce]_vars

\* helpers/utils on its own, its rate limiter driven by direct calls.
NextRateLimit ==
    \/ \E r \in Reqs : RateLimitCheckCall(r)
    \/ ResetInterval

SpecRateLimit == InitUtils /\ [][NextRateLimit]_vars

\* One evaluation of the inline trigger policy on an arbitrary input.
EvalInlineTrigger ==
    /\ trig.phase = "input"
    /\ trig.policy = "inline"
    /\ trig' = [trig EXCEPT
                  !.phase = "done",
                  !.fire = shouldTriggerCompletion(
                               InlineContextData(trig.lang, trig.line, trig.character),
                               trig.kind, TrigConfig(trig))]
    /\ UNCHANGED << callCount, suggestionCache, timer, pc, reqPrompt, reqMode,
                    reqTrig, reqAdmitted, burst, fnArgs, missInWindow, build, apiKey, genAI,
                    providerDisposable, inflight, shellVars >>

InitTrigger ==
    /\ UtilsLoaded
    /\ trig \in InlineTrigInputs
    /\ build = "current"
    /\ KeyConfigured

SpecTrigger == InitTrigger /\ [][EvalInlineTrigger]_vars

\* One evaluation of the multi-line handler's decision on an arbitrary input.
EvalMultilineTrigger ==
    /\ trig.phase = "input"
    /\ trig.policy = "multiline"
    /\ trig' = [trig EXCEPT
                  !.phase = "done",
                  !.outcome = MultilineDecision(trig.lang, trig.line,
                                                trig.liveLine, trig.character,
                                                trig.kind, trig.triggers)]
    /\ UNCHANGED << callCount, suggestionCache, timer, pc, reqPrompt, reqMode,
                    reqTrig, reqAdmitted, burst, fnArgs, missInWindow, build, apiKey, genAI,
                    providerDisposable, inflight, shellVars >>

InitMultiline ==
    /\ UtilsLoaded
    /\ trig \in MultilineTrigInputs
    /\ build = "current"
    /\ KeyConfigured

SpecMultiline == InitMultiline /\ [][EvalMultilineTrigger]_vars

---------------------------------------------------------------------------
(* ModelManager.sanitizeCompletion *)

MaxSanitizeLen == 5

Newline == "\n"
Fence == << Backtick, Backtick, Backtick >>

\* /^```[\w]*\n/ : the fence, word characters, a newline, from offset 0.
ReFenceOpen == Cat(<< Lit(Fence), Star(Cls(WordChars)), Lit(<< Newline >>) >>)

\* s.replace(/^```[\w]*\n/, ""): the star is greedy and a newline is no word
\* character, so a match from offset 0 has one possible end.
RemoveFenceOpen(s) ==
    LET ends == MatchEnds(ReFenceOpen, s, {0})
    IN  IF ends = {} THEN s
        ELSE LET e == CHOOSE i \in ends : \A j \in ends : j <= i
             IN  SubSeq(s, e + 1, Len(s))

\* s.replace(/\n```$/, "")
RemoveFenceClose(s) ==
    IF EndsWith(s, << Newline >> \o Fence)
    THEN SubSeq(s, 1, Len(s) - 4)
    ELSE s

\* s.includes("\n\n") ? s.split("\n\n")[0] : s
FirstParagraph(s) ==
    LET i == IndexOf(s, << Newline, Newline >>)
    IN  IF i >= 0 THEN SubSeq(s, 1, i) ELSE s

sanitizeCompletion(completion) ==
    FirstParagraph(RemoveFenceClose(RemoveFenceOpen(Trim(completion))))

\* The raw model texts: up to MaxSanitizeLen of these pieces in a row.
SanitizeFrags == { Fence, << Newline >>, << " " >>, << "a" >> }

SanitizeInputs ==
    { [ phase |-> "input", policy |-> "sanitize", x |-> Flatten(fs),
        once |-> << >>, twice |-> << >> ] :
      fs \in UNION { [1..n -> SanitizeFrags] : n \in 0..MaxSanitizeLen } }

\* sanitizeCompletion applied to a raw text, and again to its own result.
EvalSanitize ==
    /\ trig.phase = "input"
    /\ trig.policy = "sanitize"
    /\ trig' = [trig EXCEPT
                  !.phase = "done",
                  !.once = sanitizeCompletion(trig.x),
                  !.twice = sanitizeCompletion(sanitizeCompletion(trig.x))]
    /\ UNCHANGED << callCount, suggestionCache, timer, pc, reqPrompt, reqMode,
                    reqTrig, reqAdmitted, burst, fnArgs, missInWindow, build, apiKey, genAI,
                    providerDisposable, inflight, shellVars >>

InitSanitize ==
    /\ UtilsLoaded
    /\ trig \in SanitizeInputs
    /\ build = "current"
    /\ KeyConfigured

SpecSanitize == InitSanitize /\ [][EvalSanitize]_vars

---------------------------------------------------------------------------
(* MultilineCompletionProvider.applyIndentation *)

MaxIndentLen == 5

StartsWith(s, t) ==
    /\ Len(t) <= Len(s)
    /\ SubSeq(s, 1, Len(t)) = t

\* s.split("\n"): the pieces between the newlines, at least one piece.
RECURSIVE Split(_)
Split(s) ==
    LET i == IndexOf(s, << Newline >>)
    IN  IF i < 0 THEN << s >>
        ELSE << SubSeq(s, 1, i) >> \o Split(SubSeq(s, i + 2, Len(s)))

\* lines.join("\n")
RECURSIVE Join(_)
Join(lines) ==
    IF Len(lines) = 0 THEN << >>
    ELSE IF Len(lines) = 1 THEN lines[1]
    ELSE lines[1] \o << Newline >> \o Join(Tail(lines))

\* line.match(/^\s*/)[0]
LeadingWhitespace(line) == SubSeq(line, 1, Len(line) - Len(TrimLeft(line)))

\* The callback of lines.map, with every indented line given the base
\* indentation in place of its own.
IndentLineAlwaysReplace(line, index, baseIndentation) ==
    IF index = 0 THEN line
    ELSE IF Trim(line) = << >> THEN line
    ELSE baseIndentation \o TrimLeft(line)

\* The callback of lines.map, without the test that leaves a
\* whitespace-only line alone.
IndentLinePadsBlank(line, index, baseIndentation) ==
    IF index = 0 THEN line
    ELSE LET lineIndent == LeadingWhitespace(line)
         IN  IF lineIndent # << >>
             THEN IF StartsWith(line, baseIndentation)
                  THEN line
                  ELSE baseIndentation \o SubSeq(line, Len(lineIndent) + 1, Len(line))
             ELSE baseIndentation \o line

\* The callback of lines.map in applyIndentation; index counts from 0.
IndentLine(line, index, baseIndentation) ==
    IF index = 0 THEN line
    ELSE IF Trim(line) = << >> THEN line
    ELSE LET lineIndent == LeadingWhitespace(line)
         IN  IF lineIndent # << >>
             THEN IF StartsWith(line, baseIndentation)
                  THEN line
                  ELSE baseIndentation \o SubSeq(line, Len(lineIndent) + 1, Len(line))
             ELSE baseIndentation \o line

applyIndentation(suggestion, baseIndentation) ==
    LET lines == Split(suggestion)
    IN  IF Len(lines) <= 1 THEN suggestion
        ELSE Join([ i \in 1..Len(lines) |->
                      IndentLine(lines[i], i - 1, baseIndentation) ])

\* The suggestions: up to MaxIndentLen of these characters in a row.
IndentChars == { " ", "\t", "a", Newline }

\* contextData.indentation: the leading whitespace of the cursor line.
BaseIndentations == { << >>, << " " >>, << " ", " " >>, << "\t" >> }

IndentInputs ==
    { [ phase |-> "input", policy |-> "indent", suggestion |-> s,
        base |-> b, result |-> << >> ] :
      s \in UNION { [1..n -> IndentChars] : n \in 0..MaxIndentLen },
      b \in BaseIndentations }

EvalIndent ==
    /\ trig.phase = "input"
    /\ trig.policy = "indent"
    /\ trig' = [trig EXCEPT
                  !.phase = "done",
                  !.result = applyIndentation(trig.suggestion, trig.base)]
    /\ UNCHANGED << callCount, suggestionCache, timer, pc, reqPrompt, reqMode,
                    reqTrig, reqAdmitted, burst, fnArgs, missInWindow, build, apiKey, genAI,
                    providerDisposable, inflight, shellVars >>

InitIndent ==
    /\ UtilsLoaded
    /\ trig \in IndentInputs
    /\ build = "current"
    /\ KeyConfigured

SpecIndent == InitIndent /\ [][EvalIndent]_vars

---------------------------------------------------------------------------
(* LanguageFeatures.getCurrentScope *)

MaxScopeLine == 32
ScopeFallbackLines == 30

\* /^(kw1|kw2|...)\b/ : the line starts with a keyword that ends at a word
\* boundary.
StartsWithKeyword(line, keywords) ==
    \E kw \in keywords :
        /\ StartsWith(line, kw)
        /\ Len(line) = Len(kw) \/ line[Len(kw) + 1] \notin WordChars

\* re.test(s) for a pattern with no anchor: some start, some end.
SearchAnywhere(re, s) == MatchEnds(re, s, 0..Len(s)) # {}

\* re.test(s) for a pattern of the form /^.../ : a match from offset 0.
MatchFromStart(re, s) == MatchEnds(re, s, {0}) # {}

\* /^[a-zA-Z0-9_$]+\s*\([^)]*\)\s*{/
ReCallBlock ==
    Cat(<< Plus(Cls(WordChars \cup {"$"})), WsStar, Lit(<<"(">>),
           Star(NotCls({")"})), Lit(<<")">>), WsStar, Lit(<<"{">>) >>)

\* /=>\s*{/
ReArrowBlock == Cat(<< Lit(<<"=", ">">>), WsStar, Lit(<<"{">>) >>)

\* /\(\s*\)\s*{/
ReEmptyParenBlock ==
    Cat(<< Lit(<<"(">>), WsStar, Lit(<<")">>), WsStar, Lit(<<"{">>) >>)

\* /\{\s*$/
ReOpenBraceEnd == Cat(<< Lit(<<"{">>), WsStar >>)

\* /\bdo(\s*\|[^|]*\|)?\s*$/ without its leading \b
ReRubyDo ==
    Cat(<< Lit(<<"d", "o">>),
           Opt(Cat(<< WsStar, Lit(<<"|">>), Star(NotCls({"|"})), Lit(<<"|">>) >>)),
           WsStar >>)

JsBlockKeywords ==
    { <<"f","u","n","c","t","i","o","n">>, <<"c","l","a","s","s">>, <<"i","f">>,
      <<"f","o","r">>, <<"w","h","i","l","e">>, <<"s","w","i","t","c","h">>,
      <<"t","r","y">>, <<"e","l","s","e"," ","i","f">>, <<"e","l","s","e">>,
      <<"d","o">> }

PyBlockKeywords ==
    { <<"d","e","f">>, <<"c","l","a","s","s">>, <<"i","f">>, <<"f","o","r">>,
      <<"w","h","i","l","e">>, <<"t","r","y">>, <<"e","l","i","f">>,
      <<"e","l","s","e">>, <<"e","x","c","e","p","t">>, <<"w","i","t","h">> }

RubyBlockKeywords ==
    { <<"d","e","f">>, <<"c","l","a","s","s">>, <<"m","o","d","u","l","e">>,
      <<"i","f">>, <<"u","n","l","e","s","s">>, <<"w","h","i","l","e">>,
      <<"u","n","t","i","l">>, <<"f","o","r">>, <<"b","e","g","i","n">>,
      <<"c","a","s","e">> }

GoBlockKeywords ==
    { <<"f","u","n","c">>, <<"t","y","p","e">>, <<"i","f">>, <<"f","o","r">>,
      <<"s","w","i","t","c","h">>, <<"s","e","l","e","c","t">>,
      <<"c","a","s","e">>, <<"d","e","f","a","u","l","t">> }

RustBlockKeywords ==
    { <<"f","n">>, <<"s","t","r","u","c","t">>, <<"e","n","u","m">>,
      <<"i","m","p","l">>, <<"t","r","a","i","t">>, <<"i","f">>,
      <<"w","h","i","l","e">>, <<"f","o","r">>, <<"l","o","o","p">>,
      <<"m","a","t","c","h">> }

DefaultBlockKeywords ==
    { <<"f","u","n","c","t","i","o","n">>, <<"c","l","a","s","s">>, <<"i","f">>,
      <<"f","o","r">>, <<"w","h","i","l","e">>, <<"t","r","y">> }

isBlockStart(languageId, line) ==
    IF languageId \in {"javascript", "typescript", "java", "c", "cpp", "csharp"}
    THEN \/ StartsWithKeyword(line, JsBlockKeywords)
         \/ MatchFromStart(ReCallBlock, line)
         \/ SearchAnywhere(ReArrowBlock, line)
         \/ SearchAnywhere(ReEmptyParenBlock, line)
         \/ SearchToEnd(ReOpenBraceEnd, line)
    ELSE IF languageId = "python"
    THEN \E kw \in PyBlockKeywords :
            /\ StartsWithKeyword(line, {kw})
            /\ Len(line) > Len(kw)
            /\ \A k \in (Len(kw) + 1)..(Len(line) - 1) :
                   line[k] \notin LineTerminators
            /\ line[Len(line)] = ":"
    ELSE IF languageId = "ruby"
    THEN \/ StartsWithKeyword(line, RubyBlockKeywords)
         \/ \E k \in 0..Len(line) :
               /\ k = 0 \/ line[k] \notin WordChars
               /\ Len(line) \in MatchEnds(ReRubyDo, line, {k})
    ELSE IF languageId = "go"
    THEN \/ StartsWithKeyword(line, GoBlockKeywords)
         \/ SearchToEnd(ReOpenBraceEnd, line)
    ELSE IF languageId = "rust"
    THEN \/ StartsWithKeyword(line, RustBlockKeywords)
         \/ SearchToEnd(ReOpenBraceEnd, line)
    ELSE \/ StartsWithKeyword(line, DefaultBlockKeywords)
         \/ SearchToEnd(ReOpenBraceEnd, line)

\* line.match(/^\s*/)?.[0].length || 0
IndentOf(line) == Len(LeadingWhitespace(line))

\* The fallback test of the loop, never true.
ScopeFallbackNever(positionLine, i, scopeLines) == FALSE

\* position.line - i >= 30 && scopeLines.length === 0
ScopeFallbackReached(positionLine, i, scopeLines) ==
    positionLine - i >= ScopeFallbackLines /\ Len(scopeLines) = 0

\* lines[from..to] with 0-based, inclusive indices.
LinesFromTo(lines, from, to) == SubSeq(lines, from + 1, to + 1)

\* The lines of the text before the cursor: one filler line repeated, at most
\* one block-opening line among them, and the part of the cursor line before
\* the cursor.
ScopeFillers == { << "x" >>, << " ", "x" >> }
ScopeOpeners == { << "i", "f", " ", "a", ":" >>, << " ", "i", "f", " ", "a", ":" >> }
ScopeCursorLines == { << "y" >>, << " ", "y" >> }
ScopeLangs == { "typescript", "python" }

ScopeDocs ==
    UNION { { [ j \in 1..(p + 1) |->
                  IF j = p + 1 THEN c ELSE IF j = k THEN o ELSE f ] :
              k \in 0..p, o \in ScopeOpeners, f \in ScopeFillers,
              c \in ScopeCursorLines } :
            p \in 0..MaxScopeLine }

ScopeInputs ==
    { [ phase |-> "input", policy |-> "scope", lang |-> l, lines |-> d,
        positionLine |-> Len(d) - 1, currentIndent |-> 0, i |-> Len(d) - 1,
        lowest |-> Len(d) - 1, scopeLines |-> << >> ] :
      l \in ScopeLangs, d \in ScopeDocs }

\* getCurrentScope up to its loop: the indentation of the cursor line.
getCurrentScopeEnter ==
    /\ trig.phase = "input"
    /\ trig.policy = "scope"
    /\ trig' = [trig EXCEPT
                  !.phase = "loop",
                  !.currentIndent = IndentOf(trig.lines[trig.positionLine + 1]),
                  !.i = trig.positionLine]
    /\ UNCHANGED << callCount, suggestionCache, timer, pc, reqPrompt, reqMode,
                    reqTrig, reqAdmitted, burst, fnArgs, missInWindow, build, apiKey, genAI,
                    providerDisposable, inflight, shellVars >>

\* The body of the loop of getCurrentScope at index i: whether it breaks, and
\* the scope lines it leaves.
ScopeLoopBody(languageId, lines, positionLine, currentIndent, i, scopeLines) ==
    IF IndentOf(lines[i + 1]) < currentIndent
       /\ isBlockStart(languageId, Trim(lines[i + 1]))
    THEN [ brk |-> TRUE, scopeLines |-> LinesFromTo(lines, i, positionLine) ]
    ELSE IF ScopeFallbackReached(positionLine, i, scopeLines)
    THEN [ brk |-> TRUE,
           scopeLines |->
               LinesFromTo(lines,
                   IF positionLine - ScopeFallbackLines > 0
                   THEN positionLine - ScopeFallbackLines
                   ELSE 0,
                   positionLine) ]
    ELSE [ brk |-> FALSE, scopeLines |-> scopeLines ]

\* One iteration of the loop of getCurrentScope, with the test that ends it.
getCurrentScopeLoop ==
    /\ trig.phase = "loop"
    /\ trig.policy = "scope"
    /\ \E body \in { ScopeLoopBody(trig.lang, trig.lines, trig.positionLine,
                                    trig.currentIndent, trig.i, trig.scopeLines) } :
          trig' = [trig EXCEPT
                     !.phase = IF body.brk \/ trig.i - 1 < 0 THEN "done" ELSE "loop",
                     !.lowest = trig.i,
                     !.i = IF body.brk THEN trig.i ELSE trig.i - 1,
                     !.scopeLines = body.scopeLines]
    /\ UNCHANGED << callCount, suggestionCache, timer, pc, reqPrompt, reqMode,
                    reqTrig, reqAdmitted, burst, fnArgs, missInWindow, build, apiKey, genAI,
                    providerDisposable, inflight, shellVars >>

\* The loop of getCurrentScope from index i down, as one function.
RECURSIVE ScopeLoop(_, _, _, _, _)
ScopeLoop(languageId, lines, positionLine, currentIndent, i) ==
    IF i < 0 THEN << >>
    ELSE LET body == ScopeLoopBody(languageId, lines, positionLine,
                                   currentIndent, i, << >>)
         IN  IF body.brk THEN body.scopeLines
             ELSE ScopeLoop(languageId, lines, positionLine, currentIndent, i - 1)

\* getCurrentScope(document, position), given the text before the cursor.
getCurrentScope(languageId, textBefore, positionLine) ==
    LET lines == Split(textBefore)
    IN  Join(ScopeLoop(languageId, lines, positionLine,
                       IndentOf(lines[positionLine + 1]), positionLine))

InitScope ==
    /\ UtilsLoaded
    /\ trig \in ScopeInputs
    /\ build = "current"
    /\ KeyConfigured

NextScope == getCurrentScopeEnter \/ getCurrentScopeLoop

SpecScope == InitScope /\ [][NextScope]_vars

\* The loop is synchronous code: once entered it runs on.
SpecScopeFair == SpecScope /\ WF_vars(NextScope)

---------------------------------------------------------------------------
(* getImportStatements and the context bundle of the two providers *)

MaxContextLines == 3
SmallTokenCount == 5
DefaultContextLineCount == 50
DefaultMultilineContextLineCount == 100
DefaultContextTokenCount == 2000

UpperChars ==
    {"A","B","C","D","E","F","G","H","I","J","K","L","M","N","O","P","Q","R",
     "S","T","U","V","W","X","Y","Z"}
Digits == {"0","1","2","3","4","5","6","7","8","9"}

\* /^[A-Z][A-Z0-9_]* *= *[^=]/
RePyConstant ==
    Cat(<< Cls(UpperChars), Star(Cls(UpperChars \cup Digits \cup {"_"})),
           Star(Lit(<<" ">>)), Lit(<<"=">>), Star(Lit(<<" ">>)), NotCls({"="}) >>)

StartsWithAny(s, prefixes) == \E t \in prefixes : StartsWith(s, t)

\* The go branch of getImportStatements over the remaining lines.
RECURSIVE GoImports(_, _)
GoImports(lines, inImportBlock) ==
    IF lines = << >> THEN << >>
    ELSE LET line == Head(lines)
             trimmed == Trim(line)
         IN  IF StartsWith(trimmed, <<"p","a","c","k","a","g","e"," ">>)
             THEN << line >> \o GoImports(Tail(lines), inImportBlock)
             ELSE IF StartsWith(trimmed, <<"i","m","p","o","r","t"," ","\"">>)
                     \/ trimmed = <<"i","m","p","o","r","t"," ","(">>
             THEN << line >> \o GoImports(Tail(lines), TRUE)
             ELSE IF inImportBlock
             THEN << line >> \o
                  GoImports(Tail(lines), ~EndsWith(trimmed, <<")">>))
             ELSE GoImports(Tail(lines), inImportBlock)

\* The test of each other branch of getImportStatements on a trimmed line.
IsImportLine(languageId, trimmed) ==
    IF languageId \in {"javascript", "typescript"}
    THEN StartsWithAny(trimmed, { <<"i","m","p","o","r","t"," ">>,
                                  <<"e","x","p","o","r","t"," ">>,
                                  <<"r","e","q","u","i","r","e","(">> })
    ELSE IF languageId = "python"
    THEN \/ StartsWithAny(trimmed, { <<"i","m","p","o","r","t"," ">>,
                                     <<"f","r","o","m"," ">> })
         \/ MatchFromStart(RePyConstant, trimmed)
    ELSE IF languageId \in {"java", "kotlin"}
    THEN StartsWithAny(trimmed, { <<"p","a","c","k","a","g","e"," ">>,
                                  <<"i","m","p","o","r","t"," ">> })
    ELSE IF languageId = "rust"
    THEN StartsWithAny(trimmed, { <<"u","s","e"," ">>, <<"#","[">>,
                                  <<"e","x","t","e","r","n"," ","c","r","a","t","e"," ">> })
    ELSE FALSE

getImportStatements(languageId, documentText) ==
    LET lines == Split(documentText)
    IN  IF languageId = "go"
        THEN Join(GoImports(lines, FALSE))
        ELSE Join(SelectSeq(lines, LAMBDA line : IsImportLine(languageId, Trim(line))))

\* [ ... ].filter(Boolean).join("\n")
JoinNonEmpty(sections) == Join(SelectSeq(sections, LAMBDA sec : sec # << >>))

\* document.getText(new Range(new Position(startLine, 0), position))
TextInRange(lines, startLine, positionLine, character) ==
    Join(SubSeq(lines, startLine + 1, positionLine)
           \o << Substring0(lines[positionLine + 1], character) >>)

Max0(n) == IF n > 0 THEN n ELSE 0

\* InlineCompletionProvider.getContextData: contextText, given the project
\* context that getProjectContext resolved to.
InlineContextText(languageId, lines, positionLine, character, cfg, projectContext) ==
    LET startLine == Max0(positionLine - cfg.contextLineCount)
        importStatements ==
            IF cfg.includeImports
            THEN getImportStatements(languageId, Join(lines))
            ELSE << >>
        currentScope ==
            getCurrentScope(languageId,
                            TextInRange(lines, 0, positionLine, character),
                            positionLine)
        immediateContext == TextInRange(lines, startLine, positionLine, character)
    IN  JoinNonEmpty(<< importStatements, projectContext, currentScope,
                        immediateContext >>)

\* MultilineCompletionProvider.getContextData: contextText; the window is
\* set by multilineContextLineCount, a setting of its own.
MultilineContextText(languageId, lines, positionLine, character, cfg, projectContext) ==
    LET startLine == Max0(positionLine - cfg.multilineContextLineCount)
        contextText == TextInRange(lines, startLine, positionLine, character)
        imports == getImportStatements(languageId, Join(lines))
    IN  JoinNonEmpty(<< imports, projectContext, contextText >>)

\* The documents: up to MaxContextLines of these lines.
ContextDocLines ==
    { <<"i","m","p","o","r","t"," ","a">>, <<"x">>, <<" ","x">>,
      <<"i","f"," ","a",":">> }

ContextDocs == UNION { [1..n -> ContextDocLines] : n \in 1..MaxContextLines }

\* What getProjectContext resolved to: nothing, or the declarations of one
\* related file under their heading.
ProjectContexts ==
    { << >>, << Newline, "/", "/", "b", Newline, "D", Newline >> }

ContextConfigs ==
    { [ contextLineCount |-> n, multilineContextLineCount |-> m,
        contextTokenCount |-> t, includeImports |-> b ] :
      n \in {0, 1, DefaultContextLineCount},
      m \in {0, DefaultMultilineContextLineCount},
      t \in {SmallTokenCount, DefaultContextTokenCount},
      b \in BOOLEAN }

\* One call of getContextData: the provider, the document, the cursor, the
\* settings and the project context found.
ContextInput(pr, d, p, ch, c, pc0) ==
    [ phase |-> "input", policy |-> "context", provider |-> pr,
      lang |-> "typescript", lines |-> d, positionLine |-> p,
      character |-> ch, cfg |-> c, projectContext |-> pc0,
      importStatements |-> << >>, currentScope |-> << >>,
      immediateContext |-> << >>, contextText |-> << >> ]

\* getContextData of either provider; the sections are recorded as
\* LanguageFeatures and the editor give them for this document and cursor.
\* The multi-line provider computes no enclosing scope.
EvalContextData ==
    /\ trig.phase = "input"
    /\ trig.policy = "context"
    /\ LET ch == IF trig.character > Len(trig.lines[trig.positionLine + 1])
                 THEN Len(trig.lines[trig.positionLine + 1])
                 ELSE trig.character
       IN  trig' = [trig EXCEPT
              !.phase = "done",
              !.character = ch,
              !.importStatements =
                  IF trig.provider = "multiline" \/ trig.cfg.includeImports
                  THEN getImportStatements(trig.lang, Join(trig.lines))
                  ELSE << >>,
              !.currentScope =
                  IF trig.provider = "inline"
                  THEN getCurrentScope(trig.lang,
                           TextInRange(trig.lines, 0, trig.positionLine, ch),
                           trig.positionLine)
                  ELSE << >>,
              !.immediateContext =
                  TextInRange(trig.lines,
                      Max0(trig.positionLine -
                             (IF trig.provider = "inline"
                              THEN trig.cfg.contextLineCount
                              ELSE trig.cfg.multilineContextLineCount)),
                      trig.positionLine, ch),
              !.contextText =
                  IF trig.provider = "inline"
                  THEN InlineContextText(trig.lang, trig.lines, trig.positionLine,
                                         ch, trig.cfg, trig.projectContext)
                  ELSE MultilineContextText(trig.lang, trig.lines,
                                            trig.positionLine, ch, trig.cfg,
                                            trig.projectContext)]
    /\ UNCHANGED << callCount, suggestionCache, timer, pc, reqPrompt, reqMode,
                    reqTrig, reqAdmitted, burst, fnArgs, missInWindow, build, apiKey, genAI,
                    providerDisposable, inflight, shellVars >>

InitContext ==
    /\ UtilsLoaded
    /\ \E pr \in {"inline", "multiline"}, d \in ContextDocs,
          c \in ContextConfigs, pc0 \in ProjectContexts :
          \E p \in 0..(Len(d) - 1), ch \in {0, Len(d[Len(d)])} :
              trig = ContextInput(pr, d, p, ch, c, pc0)
    /\ build = "current"
    /\ KeyConfigured

SpecContext == InitContext /\ [][EvalContextData]_vars

---------------------------------------------------------------------------
(* One request from entry to return: the configured key, the             *)
(* cancellation token, upstream failures and what the editor gets back   *)

\* The state of the helpers and of every request slot that this part of the
\* model leaves alone.
requestSlots ==
    << pc, reqPrompt, reqMode, reqTrig, reqAdmitted, burst, fnArgs, trig >>

slotVars == << requestSlots, missInWindow >>

\* ModelManager.ensureInitialized: what it returns and genAI afterwards.
ensureInitialized(g, key) ==
    IF ~g
    THEN IF ~IsBlank(key)
         THEN [ok |-> TRUE, genAI |-> TRUE]
         ELSE [ok |-> FALSE, genAI |-> FALSE]
    ELSE [ok |-> TRUE, genAI |-> TRUE]

\* What a completion provider hands the editor when it has nothing: the
\* inline providers return [], the multi-line provider returns null.
EmptyResult(mode) == IF mode = "multiline" THEN "null" ELSE "empty"

\* A request that returns to the editor with nothing.
ReturnNothing(req) ==
    [req EXCEPT !.at = "returned", !.result = EmptyResult(req.mode)]

\* catch of getInlineCompletions / getMultilineCompletions that delivers an
\* empty list instead of the error.
CompletionsCatchSwallow(req) == [req EXCEPT !.delivered = "empty"]

\* catch (error) { this.logger.error(...); throw error; }
CompletionsCatch(req) == [req EXCEPT !.delivered = "thrown"]

\* ModelManager.getInlineCompletions / getMultilineCompletions from their
\* first line to their first suspension, called by the provider of request
\* req: ensureInitialized, then getCachedSuggestion, whose cached answer comes
\* back through the token checks of the manager and of the provider with no
\* suspension in between.
CompletionsStart(req) ==
    LET init == ensureInitialized(genAI, apiKey)
    IN  IF ~init.ok
        THEN [ req |-> ReturnNothing([req EXCEPT !.delivered = "empty"]),
               genAI |-> init.genAI, timer |-> timer, miss |-> missInWindow ]
        ELSE IF suggestionCache[req.prompt] # NoValue
        THEN [ req |->
                 IF req.token
                 THEN ReturnNothing([req EXCEPT !.delivered = "empty"])
                 ELSE [req EXCEPT !.at = "returned", !.delivered = "text",
                                  !.value = suggestionCache[req.prompt],
                                  !.result = "items"],
               genAI |-> init.genAI, timer |-> timer,
               miss |-> CountMiss(req.prompt) ]
        ELSE [ req |-> [req EXCEPT !.at = "debounce"],
               genAI |-> init.genAI,
               timer |-> DebounceSchedule(timer, Call(0, req.prompt)),
               miss |-> CountMiss(req.prompt) ]

\* InlineCompletionProvider.provideInlineCompletionItems up to
\* `await this.getContextData(...)`: the key, the languages enabled
\* (enabled = FALSE: enabledLanguages leaves the document's language out),
\* then the rate limiter, whose refusal is shown in the status bar.
ProvideInline(p, enabled) ==
    /\ build = "current"
    /\ providerDisposable
    /\ inflight.at = "idle"
    /\ LET req == [NoRequest EXCEPT !.mode = "inline", !.prompt = p,
                                    !.blank = IsBlank(apiKey)]
       IN  IF IsBlank(apiKey) \/ ~enabled
           THEN /\ inflight' = ReturnNothing(req)
                /\ UNCHANGED << callCount, statusBar >>
           ELSE /\ callCount' = rateLimitCheck(callCount).count
                /\ inflight' = IF rateLimitCheck(callCount).ok
                               THEN [req EXCEPT !.at = "context"]
                               ELSE ReturnNothing(req)
                /\ statusBar' =
                     IF rateLimitCheck(callCount).ok THEN statusBar
                     ELSE StatusBarShowMessage(statusBar, RateLimitText)
    /\ UNCHANGED << suggestionCache, timer, build, apiKey, genAI,
                    providerDisposable, multilineProviderDisposable,
                    codeActionsDisposable, settings, live >>
    /\ UNCHANGED slotVars

\* MultilineCompletionProvider.provideInlineCompletionItems up to
\* `await this.getContextData(...)`: only the trigger test.
ProvideMultiline(p, triggered) ==
    /\ build = "current"
    /\ providerDisposable
    /\ inflight.at = "idle"
    /\ LET req == [NoRequest EXCEPT !.mode = "multiline", !.prompt = p,
                                    !.blank = IsBlank(apiKey)]
       IN  inflight' = IF triggered
                       THEN [req EXCEPT !.at = "context"]
                       ELSE ReturnNothing(req)
    /\ UNCHANGED << callCount, suggestionCache, timer, build, apiKey, genAI,
                    providerDisposable >>
    /\ UNCHANGED << slotVars, shellVars >>

\* Either provider resumes with its context data: its trigger policy, then
\* the call of the model manager.
ContextResume(fires) ==
    /\ inflight.at = "context"
    /\ IF fires
       THEN /\ inflight' = CompletionsStart(inflight).req
            /\ genAI' = CompletionsStart(inflight).genAI
            /\ timer' = CompletionsStart(inflight).timer
            /\ missInWindow' = CompletionsStart(inflight).miss
       ELSE /\ inflight' = ReturnNothing(inflight)
            /\ UNCHANGED << genAI, timer, missInWindow >>
    /\ UNCHANGED << callCount, suggestionCache, build, apiKey,
                    providerDisposable >>
    /\ UNCHANGED << requestSlots, shellVars >>

\* The inline provider of the first version up to its await: the key, the
\* rate limiter, then getCachedSuggestion; a cached answer is returned as an
\* item.
ProvideLegacy(p) ==
    /\ build = "legacy"
    /\ providerDisposable
    /\ inflight.at = "idle"
    /\ LET req == [NoRequest EXCEPT !.mode = "inline", !.prompt = p,
                                    !.blank = IsBlank(apiKey)]
       IN  IF IsBlank(apiKey)
           THEN /\ inflight' = ReturnNothing(req)
                /\ UNCHANGED << callCount, timer, missInWindow >>
           ELSE /\ callCount' = rateLimitCheck(callCount).count
                /\ IF ~rateLimitCheck(callCount).ok
                   THEN /\ inflight' = ReturnNothing(req)
                        /\ UNCHANGED << timer, missInWindow >>
                   ELSE IF suggestionCache[p] # NoValue
                   THEN /\ inflight' = [req EXCEPT !.at = "returned",
                                                   !.delivered = "text",
                                                   !.value = suggestionCache[p],
                                                   !.result = "items"]
                        /\ missInWindow' = CountMiss(p)
                        /\ UNCHANGED timer
                   ELSE /\ inflight' = [req EXCEPT !.at = "debounce"]
                        /\ missInWindow' = CountMiss(p)
                        /\ timer' = DebounceSchedule(timer, Call(0, p))
    /\ UNCHANGED << suggestionCache, build, apiKey, genAI, providerDisposable >>
    /\ UNCHANGED << requestSlots, shellVars >>

\* The debounce timer of the request expires: generateSuggestion calls
\* model.generateContent; its token parameter is never read.
DebounceExpires ==
    /\ inflight.at = "debounce"
    /\ timer' = timer \ { Call(0, inflight.prompt) }
    /\ inflight' = [inflight EXCEPT !.at = "upstream", !.calls = @ + 1]
    /\ UNCHANGED << callCount, suggestionCache, build, apiKey, genAI,
                    providerDisposable >>
    /\ UNCHANGED << slotVars, shellVars >>

\* generateDocumentation / explainSelectedCode and ModelManager.
\* generateDocumentation / explainCode up to `await model.generateContent`.
RunCommand(m) ==
    /\ build = "current"
    /\ m \in {"documentation", "explanation"}
    /\ inflight.at = "idle"
    /\ LET req == [NoRequest EXCEPT !.mode = m, !.blank = IsBlank(apiKey)]
           init == ensureInitialized(genAI, apiKey)
       IN  /\ genAI' = init.genAI
           /\ inflight' =
                IF ~init.ok
                THEN [req EXCEPT !.at = "returned", !.delivered = "thrown",
                                 !.result = "error"]
                ELSE [req EXCEPT !.at = "upstream", !.calls = @ + 1]
    /\ UNCHANGED << callCount, suggestionCache, timer, build, apiKey,
                    providerDisposable >>
    /\ UNCHANGED << slotVars, shellVars >>

\* The upstream service settles model.generateContent: with text v, or with
\* a failure, whose message names a rate limit or a quota (quota = TRUE) or
\* does not.
UpstreamSettles(ok, v, quota) ==
    /\ inflight.at = "upstream"
    /\ quota => ~ok
    /\ inflight' = IF ok
                   THEN [inflight EXCEPT !.at = "answered", !.answer = "text",
                                         !.value = v]
                   ELSE [inflight EXCEPT !.at = "answered", !.answer = "error",
                                         !.quota = quota]
    /\ UNCHANGED << callCount, suggestionCache, timer, build, apiKey, genAI,
                    providerDisposable >>
    /\ UNCHANGED << slotVars, shellVars >>

\* getCachedSuggestion after its await, storing an entry for a failed call
\* as well.
CacheAfterAnswerStoresFailure(cache, req) ==
    [cache EXCEPT ![req.prompt] =
        IF req.answer = "error" THEN CHOOSE v \in Values : TRUE ELSE req.value]

\* getCachedSuggestion after its await, storing nothing for a request whose
\* token is cancelled.
CacheAfterAnswerUnlessCancelled(cache, req) ==
    IF req.answer = "error" \/ req.token
    THEN cache
    ELSE [cache EXCEPT ![req.prompt] = req.value]

\* getCachedSuggestion after `await debouncedGenerateSuggestion(...)`: a
\* rejection leaves the function before suggestionCache.set, an answer is
\* stored under the prompt whatever the token says.
CacheAfterAnswer(cache, req) ==
    IF req.answer = "error"
    THEN cache
    ELSE [cache EXCEPT ![req.prompt] = req.value]

\* A provider of the current version resumes with the answer:
\* getCachedSuggestion stores it, the manager and then the provider read the
\* token; a failure goes through the catch of the manager to the catch of
\* the provider, where handleError of the inline provider shows a message in
\* the status bar if the error names a rate limit or a quota.
ProviderResume ==
    /\ build = "current"
    /\ inflight.at = "answered"
    /\ inflight.mode \in {"inline", "multiline"}
    /\ suggestionCache' = CacheAfterAnswer(suggestionCache, inflight)
    /\ inflight' =
         IF inflight.answer = "error"
         THEN ReturnNothing(CompletionsCatch(inflight))
         ELSE IF inflight.token
         THEN ReturnNothing([inflight EXCEPT !.delivered = "empty"])
         ELSE [inflight EXCEPT !.at = "returned", !.delivered = "text",
                               !.result = "items"]
    /\ statusBar' =
         IF inflight.answer = "error" /\ inflight.quota /\ inflight.mode = "inline"
         THEN StatusBarShowMessage(statusBar, RateLimitText)
         ELSE statusBar
    /\ UNCHANGED << callCount, timer, build, apiKey, genAI, providerDisposable,
                    multilineProviderDisposable, codeActionsDisposable,
                    settings, live >>
    /\ UNCHANGED slotVars

\* The provider of the first version resumes with the answer: the item is
\* returned without a look at the token; a failure is shown and [] returned.
LegacyResume ==
    /\ build = "legacy"
    /\ inflight.at = "answered"
    /\ suggestionCache' = CacheAfterAnswer(suggestionCache, inflight)
    /\ inflight' =
         IF inflight.answer = "error"
         THEN ReturnNothing([inflight EXCEPT !.delivered = "thrown"])
         ELSE [inflight EXCEPT !.at = "returned", !.delivered = "text",
                               !.result = "items"]
    /\ UNCHANGED << callCount, timer, build, apiKey, genAI, providerDisposable >>
    /\ UNCHANGED << slotVars, shellVars >>

\* A command resumes with the answer: the manager returns the text or
\* rethrows; the command reads the token, for the only time, and awaits
\* vscode.workspace.openTextDocument.
CommandResume ==
    /\ build = "current"
    /\ inflight.at = "answered"
    /\ inflight.mode \in {"documentation", "explanation"}
    /\ inflight' =
         IF inflight.answer = "error"
         THEN [inflight EXCEPT !.at = "returned", !.delivered = "thrown",
                               !.result = "error"]
         ELSE IF inflight.token
         THEN [inflight EXCEPT !.at = "returned", !.delivered = "text",
                               !.result = "empty"]
         ELSE [inflight EXCEPT !.at = "opening", !.delivered = "text"]
    /\ UNCHANGED << callCount, suggestionCache, timer, build, apiKey, genAI,
                    providerDisposable >>
    /\ UNCHANGED << slotVars, shellVars >>

\* openTextDocument resolves: the command awaits
\* vscode.window.showTextDocument without reading the token again.
DocumentOpened ==
    /\ inflight.at = "opening"
    /\ inflight' = [inflight EXCEPT !.at = "showing"]
    /\ UNCHANGED << callCount, suggestionCache, timer, build, apiKey, genAI,
                    providerDisposable >>
    /\ UNCHANGED << slotVars, shellVars >>

\* showTextDocument resolves: the document is shown and the task returns.
DocumentShown ==
    /\ inflight.at = "showing"
    /\ inflight' = [inflight EXCEPT !.at = "returned", !.result = "shown"]
    /\ UNCHANGED << callCount, suggestionCache, timer, build, apiKey, genAI,
                    providerDisposable >>
    /\ UNCHANGED << slotVars, shellVars >>

\* The editor or the user cancels the token of the request in flight.
Cancel ==
    /\ inflight.at \in {"context", "debounce", "upstream", "answered",
                        "opening", "showing"}
    /\ ~inflight.token
    /\ inflight' = [inflight EXCEPT !.token = TRUE, !.cancelledAt = inflight.at]
    /\ UNCHANGED << callCount, suggestionCache, timer, build, apiKey, genAI,
                    providerDisposable >>
    /\ UNCHANGED << slotVars, shellVars >>

\* The editor has its result; the next request may start.
RequestOver ==
    /\ inflight.at = "returned"
    /\ inflight' = NoRequest
    /\ UNCHANGED << callCount, suggestionCache, timer, build, apiKey, genAI,
                    providerDisposable >>
    /\ UNCHANGED << slotVars, shellVars >>

\* The extension's three variables and the editor's registrations, as one
\* value.
Providers ==
    [ providerDisposable |-> providerDisposable,
      multilineProviderDisposable |-> multilineProviderDisposable,
      codeActionsDisposable |-> codeActionsDisposable,
      live |-> live ]

SetProviders(r) ==
    /\ providerDisposable' = r.providerDisposable
    /\ multilineProviderDisposable' = r.multilineProviderDisposable
    /\ codeActionsDisposable' = r.codeActionsDisposable
    /\ live' = r.live

\* disposable.dispose() on what a variable holds, n registrations of that
\* provider being live: the registration held ends; disposing a registration
\* that was disposed before (the first version's deactivate leaves it in the
\* variable) changes nothing.
Dispose(held, n) == IF held /\ n > 0 THEN n - 1 ELSE n

\* A disposal that leaves the two optional providers registered.
DisposeInlineOnly(r) ==
    [r EXCEPT !.providerDisposable = FALSE,
              !.live.inline = Dispose(r.providerDisposable, @)]

\* The disposal written out in disableExtension, updateConfiguration and
\* deactivate: each variable that holds a registration is disposed and set
\* to null.
DisposeProviders(r) ==
    [ providerDisposable |-> FALSE,
      multilineProviderDisposable |-> FALSE,
      codeActionsDisposable |-> FALSE,
      live |-> [ inline |-> Dispose(r.providerDisposable, r.live.inline),
                 multiline |-> Dispose(r.multilineProviderDisposable,
                                       r.live.multiline),
                 codeActions |-> Dispose(r.codeActionsDisposable,
                                         r.live.codeActions) ] ]

\* A setting of autogem.* changes: the key, the switches, or another one
\* (model, temperature: key and switches as before). The current version
\* runs updateConfiguration: the providers are disposed; if
\* the lookup of the extension finds it, reading exports.context throws
\* (activate returns nothing, so exports is undefined) and the handler ends
\* there; otherwise the status bar is updated as enabled. The model manager
\* is left as it is. The first version has no handler for the change.
ConfigurationChange(key, s, found) ==
    /\ ~statusBar.disposed
    /\ apiKey' = key
    /\ settings' = s
    /\ IF build = "current"
       THEN /\ SetProviders(DisposeProviders(Providers))
            /\ statusBar' = IF found THEN statusBar
                            ELSE StatusBarUpdate(statusBar, s, TRUE)
       ELSE UNCHANGED << providerDisposable, multilineProviderDisposable,
                         codeActionsDisposable, live, statusBar >>
    /\ UNCHANGED << callCount, suggestionCache, timer, build, genAI, inflight >>
    /\ UNCHANGED slotVars

\* autogem.enable
enableExtension ==
    /\ ~statusBar.disposed
    /\ IF ~providerDisposable
       THEN /\ SetProviders(IF build = "current"
                            THEN registerProviders(Providers, settings)
                            ELSE registerInline(Providers))
            /\ statusBar' = IF build = "current"
                            THEN StatusBarUpdate(statusBar, settings, TRUE)
                            ELSE statusBar
       ELSE UNCHANGED << providerDisposable, multilineProviderDisposable,
                         codeActionsDisposable, live, statusBar >>
    /\ UNCHANGED << callCount, suggestionCache, timer, build, apiKey, genAI,
                    inflight, settings >>
    /\ UNCHANGED slotVars

\* autogem.disable
disableExtension ==
    /\ ~statusBar.disposed
    /\ IF providerDisposable
       THEN /\ SetProviders(DisposeProviders(Providers))
            /\ statusBar' = IF build = "current"
                            THEN StatusBarUpdate(statusBar, settings, FALSE)
                            ELSE statusBar
       ELSE UNCHANGED << providerDisposable, multilineProviderDisposable,
                         codeActionsDisposable, live, statusBar >>
    /\ UNCHANGED << callCount, suggestionCache, timer, build, apiKey, genAI,
                    inflight, settings >>
    /\ UNCHANGED slotVars

\* autogem.toggleStatusBar: StatusBarManager.toggle runs the command its
\* text selects.
toggle ==
    /\ build = "current"
    /\ IF IsDisabledText(statusBar.text) THEN enableExtension
       ELSE disableExtension

\* StatusBarManager.showMessage, as the inline provider calls it when the
\* rate limiter refuses and handleError when an upstream error names a rate
\* limit or quota; the item's text is the message from then on. It tests
\* nothing: a request that settles after deactivate() still sets the text and
\* the timer of the disposed item.
showMessage(message) ==
    /\ build = "current"
    /\ statusBar' = StatusBarShowMessage(statusBar, message)
    /\ UNCHANGED << callCount, suggestionCache, timer, build, apiKey, genAI,
                    providerDisposable, inflight, multilineProviderDisposable,
                    codeActionsDisposable, settings, live >>
    /\ UNCHANGED slotVars

\* deactivate(). Current version: the providers and the status bar are
\* disposed; the commands and the configuration handler go with the
\* extension's subscriptions. First version: the registration held is
\* disposed and stays in the variable; its commands were not given to the
\* subscriptions and go on.
deactivate ==
    /\ ~statusBar.disposed
    /\ IF build = "current"
       THEN /\ SetProviders(DisposeProviders(Providers))
            /\ statusBar' = [statusBar EXCEPT !.disposed = TRUE]
       ELSE /\ live' = [live EXCEPT
                          !.inline = Dispose(providerDisposable, @)]
            /\ UNCHANGED << providerDisposable, multilineProviderDisposable,
                            codeActionsDisposable, statusBar >>
    /\ UNCHANGED << callCount, suggestionCache, timer, build, apiKey, genAI,
                    inflight, settings >>
    /\ UNCHANGED slotVars

\* Either version activated under any key, the current one under any
\* switches, then the commands, setting changes and status messages in any
\* order.
InitRegistration ==
    /\ UtilsLoaded
    /\ trig = NoTrig
    /\ build \in Builds
    /\ apiKey \in ApiKeys
    /\ settings \in IF build = "current" THEN SettingsChoices
                    ELSE {DefaultSettings}
    /\ providerDisposable = TRUE
    /\ genAI = (build = "current" /\ ~IsBlank(apiKey))
    /\ inflight = NoRequest
    /\ ActivatedShell

NextRegistration ==
    \/ \E key \in ApiKeys, s \in SettingsChoices, found \in BOOLEAN :
          ConfigurationChange(key, s, found)
    \/ enableExtension
    \/ disableExtension
    \/ toggle
    \/ showMessage(RateLimitText)
    \/ MessageTimeout
    \/ deactivate

SpecRegistration == InitRegistration /\ [][NextRegistration]_vars

InitLifecycle ==
    /\ UtilsLoaded
    /\ trig = NoTrig
    /\ build \in Builds
    /\ apiKey \in ApiKeys
    /\ Activated

\* The requests of one window of the rate limiter. autogem.disable ends the
\* registrations as a configuration change does; it is followed in
\* SpecRegistration.
NextLifecycle ==
    \/ \E p \in Prompts, enabled \in BOOLEAN : ProvideInline(p, enabled)
    \/ \E p \in Prompts, triggered \in BOOLEAN : ProvideMultiline(p, triggered)
    \/ \E fires \in BOOLEAN : ContextResume(fires)
    \/ \E p \in Prompts : ProvideLegacy(p)
    \/ DebounceExpires
    \/ \E m \in {"documentation", "explanation"} : RunCommand(m)
    \/ \E ok \in BOOLEAN, v \in Values, quota \in BOOLEAN :
          UpstreamSettles(ok, v, quota)
    \/ ProviderResume
    \/ LegacyResume
    \/ CommandResume
    \/ DocumentOpened
    \/ DocumentShown
    \/ Cancel
    \/ RequestOver
    \/ \E key \in ApiKeys, found \in BOOLEAN :
          ConfigurationChange(key, settings, found)
    \/ enableExtension
    \/ MessageTimeout

SpecLifecycle == InitLifecycle /\ [][NextLifecycle]_vars

\* The requests alone: the key and the registrations stay as activate left
\* them.
NextRequest ==
    \/ \E p \in Prompts, enabled \in BOOLEAN : ProvideInline(p, enabled)
    \/ \E p \in Prompts, triggered \in BOOLEAN : ProvideMultiline(p, triggered)
    \/ \E fires \in BOOLEAN : ContextResume(fires)
    \/ \E p \in Prompts : ProvideLegacy(p)
    \/ DebounceExpires
    \/ \E m \in {"documentation", "explanation"} : RunCommand(m)
    \/ \E ok \in BOOLEAN, v \in Values, quota \in BOOLEAN :
          UpstreamSettles(ok, v, quota)
    \/ ProviderResume
    \/ LegacyResume
    \/ CommandResume
    \/ DocumentOpened
    \/ DocumentShown
    \/ Cancel
    \/ RequestOver
    \/ MessageTimeout

SpecRequest == InitLifecycle /\ [][NextRequest]_vars

---------------------------------------------------------------------------
(* sanitizeCompletion on fenced answers *)

MaxBodyLen == 3

\* The language tag after the opening fence.
FenceTags == { << >>, << "a" >>, << "a", "b" >> }

\* The code between the fences: up to MaxBodyLen of these characters.
FenceBodies == UNION { [1..n -> {"a", " ", Newline}] : n \in 0..MaxBodyLen }

\* What follows the closing fence: nothing, or a blank line and a paragraph.
FenceTrailers ==
    { << >>, << Newline, Newline, "a" >>, << Newline, Newline, "a", " ", "a" >> }

\* A raw model text made of one fenced code block and its trailer.
FencedText(tag, body, trailer) ==
    Fence \o tag \o << Newline >> \o body \o << Newline >> \o Fence \o trailer

InitFenced ==
    /\ UtilsLoaded
    /\ \E tag \in FenceTags, body \in FenceBodies, trailer \in FenceTrailers :
          trig = [ phase |-> "input", policy |-> "sanitize",
                   x |-> FencedText(tag, body, trailer),
                   once |-> << >>, twice |-> << >> ]
    /\ build = "current"
    /\ KeyConfigured

SpecFenced == InitFenced /\ [][EvalSanitize]_vars

---------------------------------------------------------------------------
(* isPositionInComment on lines with comment markers *)

MaxCommentFrags == 3

CommentOpen == << "<", "!", "-", "-" >>
CommentClose == << "-", "-", ">" >>

\* The pieces the lines are made of.
CommentFrags == { CommentOpen, CommentClose, << "x" >>, << "/", "/" >>, << "#" >> }

CommentLangs == { "typescript", "python", "html", "xml", "plaintext" }

\* One call of isPositionInComment on a one-line document.
EvalPositionInComment ==
    /\ trig.phase = "input"
    /\ trig.policy = "comment"
    /\ trig' = [trig EXCEPT
                  !.phase = "done",
                  !.inComment =
                      isPositionInComment(trig.lang, trig.line, trig.character)]
    /\ UNCHANGED << callCount, suggestionCache, timer, pc, reqPrompt, reqMode,
                    reqTrig, reqAdmitted, burst, fnArgs, missInWindow, build,
                    apiKey, genAI, providerDisposable, inflight, shellVars >>

InitComment ==
    /\ UtilsLoaded
    /\ \E l \in CommentLangs,
          fs \in UNION { [1..n -> CommentFrags] : n \in 0..MaxCommentFrags } :
          \E ch \in 0..Len(Flatten(fs)) :
              trig = [ phase |-> "input", policy |-> "comment", lang |-> l,
                       line |-> Flatten(fs), character |-> ch,
                       inComment |-> FALSE ]
    /\ build = "current"
    /\ KeyConfigured

SpecComment == InitComment /\ [][EvalPositionInComment]_vars

---------------------------------------------------------------------------
(* getCurrentScope with the cursor inside and outside the document *)

MaxRangeLines == 2

\* How far past the last line of the document the cursor line may be.
MaxLinesPast == 2

RangeDocLines == { << >>, << "x" >>, << " ", "x" >>, << "i", "f", " ", "a", ":" >> }

RangeDocs == UNION { [1..n -> RangeDocLines] : n \in 1..MaxRangeLines }

\* document.getText(new vscode.Range(new vscode.Position(0, 0), position)):
\* the text of the document up to the position, which holds no more lines
\* than the document and no more of a line than the line has.
TextBefore(docLines, positionLine, character) ==
    IF positionLine + 1 > Len(docLines)
    THEN Join(docLines)
    ELSE TextInRange(docLines, 0, positionLine,
                     IF character > Len(docLines[positionLine + 1])
                     THEN Len(docLines[positionLine + 1])
                     ELSE character)

\* getCurrentScope(document, position): lines[position.line] is read first,
\* and `.match` of a missing element is a TypeError.
getCurrentScopeCall(languageId, docLines, positionLine, character) ==
    LET textBefore == TextBefore(docLines, positionLine, character)
        lines == Split(textBefore)
    IN  IF positionLine + 1 > Len(lines)
        THEN [ outcome |-> "throws", scope |-> << >> ]
        ELSE [ outcome |-> "returns",
               scope |-> getCurrentScope(languageId, textBefore, positionLine) ]

EvalScopeAt ==
    /\ trig.phase = "input"
    /\ trig.policy = "range"
    /\ \E call \in { getCurrentScopeCall(trig.lang, trig.lines, trig.positionLine,
                                          trig.character) } :
          trig' = [trig EXCEPT !.phase = "done", !.outcome = call.outcome,
                               !.scope = call.scope]
    /\ UNCHANGED << callCount, suggestionCache, timer, pc, reqPrompt, reqMode,
                    reqTrig, reqAdmitted, burst, fnArgs, missInWindow, build,
                    apiKey, genAI, providerDisposable, inflight, shellVars >>

InitRange ==
    /\ UtilsLoaded
    /\ \E l \in {"typescript", "plaintext"}, d \in RangeDocs :
          \E p \in 0..(Len(d) - 1 + MaxLinesPast), ch \in {0, 1, 9} :
              trig = [ phase |-> "input", policy |-> "range", lang |-> l,
                       lines |-> d, positionLine |-> p, character |-> ch,
                       outcome |-> "none", scope |-> << >> ]
    /\ build = "current"
    /\ KeyConfigured

SpecRange == InitRange /\ [][EvalScopeAt]_vars

---------------------------------------------------------------------------
(* helpers/utils with upstream calls that can answer differently *)

\* The texts the upstream service may answer with: one more than Values, so
\* that two calls for one prompt can get different answers.
AnswerTexts == 1..(NumValues + 1)

NextOverlap ==
    \/ \E r \in Reqs, p \in Prompts : GetCachedSuggestionCall(r, p)
    \/ \E c \in timer : TimerFire(c)
    \/ \E r \in Reqs, v \in AnswerTexts : UpstreamReturn(r, v)
    \/ \E r \in Reqs, quota \in BOOLEAN : UpstreamFail(r, quota)

SpecOverlap == InitUtils /\ [][NextOverlap]_vars

---------------------------------------------------------------------------
(* Claims *)

LastOf(seq) == seq[Len(seq)]

\* C1: within one debounce group (calls that each arrive while the timer of
\* the previous one is still pending) the debounced function does not run
\* before the timer of the last call expires, and it then runs exactly once,
\* with the arguments of the last call; no earlier call's arguments reach it.
C1_DebounceLastCallOnly ==
    /\ timer # {} => fnArgs = << >>
    /\ (timer = {} /\ burst # << >>) => fnArgs = << LastOf(burst) >>

\* A group of two calls with different prompts has fired.
C1_Witness ==
    /\ Len(burst) >= 2
    /\ burst[1].prompt # burst[2].prompt
    /\ timer = {}
    /\ fnArgs = << LastOf(burst) >>

\* C2: every caller of a debounce group has its pending request completed:
\* once the timer has fired and no upstream call is outstanding, no caller is
\* still waiting.
C2_NoCallerLeftPending ==
    (timer = {} /\ \A r \in Reqs : pc[r] # "upstream")
        => \A r \in Reqs : pc[r] = "idle"

\* The upstream calls known to have been issued for prompt p: those in flight
\* and, when the cache holds p, the one that stored it.
UpstreamCallsKnown(p) ==
    Cardinality({ r \in Reqs : pc[r] = "upstream" /\ reqPrompt[r] = p })
      + (IF suggestionCache[p] # NoValue THEN 1 ELSE 0)

\* C3: for one prompt text at most one upstream generation call is issued,
\* whatever the timing of the getCachedSuggestion calls that carry it.
C3_OneUpstreamCallPerPrompt ==
    \A p \in Prompts : UpstreamCallsKnown(p) <= 1

IssuesUpstream(r) ==
    /\ pc[r] \notin {"upstream", "direct"}
    /\ pc'[r] \in {"upstream", "direct"}

\* C4: the ceiling is enforced on the upstream calls of every mode: once the
\* counter has reached the ceiling, the only upstream calls still issued
\* before the next reset belong to requests the rate limiter had admitted.
C4_CeilingStopsUpstream ==
    [][ \A r \in Reqs :
          (callCount = MAX_CALLS_PER_MINUTE /\ IssuesUpstream(r))
              => reqAdmitted'[r] = "admitted" ]_vars

\* C5: each of the first cache-miss requests of a window is admitted by the
\* rate limiter, whatever cache-hit requests and no-fire trigger events are
\* interleaved with them (stated for the first MaxMissCount <= C of them):
\* while fewer lookups than that have missed in the window, the rate limiter
\* refuses no request whose trigger fires and whose prompt has no entry. A
\* refused request returns with no await, so the document it would have
\* decided on is the one it was made on (prompt p, line of input i).
C5_FirstMissesAdmitted ==
    [][ /\ \A r \in Reqs, p \in Prompts, i \in InputIds :
             ( /\ InlineRequest(r, p, i, TRUE)
               /\ reqAdmitted'[r] = "refused"
               /\ missInWindow < MaxMissCount )
                 => ~IsCacheMiss(p, InlineFires(i, i))
        /\ \A r \in Reqs, p \in Prompts :
             ( /\ LegacyRequest(r, p)
               /\ IsCacheMiss(p, TRUE)
               /\ missInWindow < MaxMissCount )
                 => reqAdmitted'[r] = "admitted" ]_vars

\* C6: a completion request whose prompt is in the cache leaves the
\* rate-limit counter as it was: when the inline handler, resumed with its
\* context data, fires and finds its prompt cached, its request has added
\* nothing to the counter (reqAdmitted is "admitted" exactly for a request
\* whose rateLimitCheck added 1); the first version, which looks up in the
\* step that consults the limiter, leaves callCount unchanged in that step.
C6_CacheHitLeavesCounter ==
    [][ /\ \A r \in Reqs, p \in Prompts, j \in InputIds :
             ( /\ InlineResume(r, p, j)
               /\ InlineFires(reqTrig[r], j)
               /\ suggestionCache[p] # NoValue )
                 => reqAdmitted[r] # "admitted"
        /\ \A r \in Reqs, p \in Prompts :
             (LegacyRequest(r, p) /\ suggestionCache[p] # NoValue)
                 => callCount' = callCount ]_vars

\* C7: the counter stays within 0..MAX_CALLS_PER_MINUTE; a refused
\* rateLimitCheck leaves it unchanged, an admitted one adds exactly 1, and the
\* periodic reset sets it to 0.
C7_RateCounterInvariant ==
    /\ [](callCount \in 0..MAX_CALLS_PER_MINUTE)
    /\ [][ /\ \A r \in Reqs :
                RateLimitCheckCall(r) =>
                    /\ reqAdmitted'[r] \in {"admitted", "refused"}
                    /\ reqAdmitted'[r] = "refused" => callCount' = callCount
                    /\ reqAdmitted'[r] = "admitted" => callCount' = callCount + 1
           /\ ResetInterval => callCount' = 0 ]_vars

\* The ceiling has been reached and a call has been refused at it.
C7_Witness ==
    /\ callCount = MAX_CALLS_PER_MINUTE
    /\ \E r \in Reqs : reqAdmitted[r] = "refused"

\* C8: an explicit invocation always fires, in or out of a comment or a
\* string and whatever skipInComments and skipInStrings say.
C8_ExplicitAlwaysFires ==
    (trig.phase = "done" /\ trig.policy = "inline" /\ trig.kind = Invoke)
        => trig.fire

\* The condition C9 gives for an automatic trigger to fire.
C9_FireCondition ==
    /\ ~isPositionInComment(trig.lang, trig.line, trig.character)
          \/ ~trig.skipInComments
    /\ ~isPositionInString(trig.lang, trig.line, trig.character)
          \/ ~trig.skipInStrings
    /\ \/ EndsWithAny(TrimRight(trig.line), DefaultTriggerCharacters)
       \/ Len(Trim(trig.line)) >= trig.minTriggerLength

C9_AutomaticDone ==
    trig.phase = "done" /\ trig.policy = "inline" /\ trig.kind = Automatic

\* C9 as claimed: an automatic trigger fires iff the condition holds, and on
\* a whitespace-only line it never fires.
C9_Original ==
    C9_AutomaticDone =>
        /\ trig.fire <=> C9_FireCondition
        /\ Trim(trig.line) = << >> => ~trig.fire

\* C9 as amended: an automatic trigger fires iff the condition holds, and on
\* a whitespace-only line it does not fire when minTriggerLength is at least 1.
C9_AutomaticFiresIff ==
    C9_AutomaticDone =>
        /\ trig.fire <=> C9_FireCondition
        /\ (Trim(trig.line) = << >> /\ trig.minTriggerLength >= 1) => ~trig.fire

\* An automatic trigger on a whitespace-only, non-empty line was refused
\* under the default minimum length.
C9_Witness ==
    /\ C9_AutomaticDone
    /\ trig.line # << >>
    /\ Trim(trig.line) = << >>
    /\ trig.minTriggerLength = DefaultMinTriggerLength
    /\ ~trig.fire

\* C10: the multi-line handler reaches the model request only at an
\* appropriate multi-line location, and on an automatic trigger only when
\* the right-trimmed line ends with a multi-line trigger.
C10_MultilineRequestOnlyIf ==
    (trig.phase = "done" /\ trig.policy = "multiline" /\ trig.outcome = "request")
        => /\ isAppropriateMultilineLocation(trig.lang, trig.line)
           /\ trig.kind = Automatic
                 => EndsWithAny(TrimRight(trig.line), trig.triggers)

\* An automatic trigger has led to a multi-line request.
C10_Witness ==
    /\ trig.phase = "done"
    /\ trig.policy = "multiline"
    /\ trig.kind = Automatic
    /\ trig.outcome = "request"

\* C14: sanitizeCompletion is idempotent: sanitizing its own result changes
\* nothing.
C14_SanitizeIdempotent ==
    (trig.phase = "done" /\ trig.policy = "sanitize") => trig.twice = trig.once

C15_Done == trig.phase = "done" /\ trig.policy = "indent"

C15_In == Split(trig.suggestion)

C15_Out == Split(trig.result)

\* The parts of C15 the code agrees with: as many lines out as in, the first
\* line unchanged, a later non-blank line with no leading whitespace given
\* the base indentation, a later line whose leading whitespace is the base
\* indentation unchanged.
C15_Agreed ==
    /\ Len(C15_Out) = Len(C15_In)
    /\ C15_Out[1] = C15_In[1]
    /\ \A i \in 2..Len(C15_In) :
         LET line == C15_In[i]
             lead == LeadingWhitespace(line)
         IN  /\ (Trim(line) # << >> /\ lead = << >>)
                    => C15_Out[i] = trig.base \o line
             /\ lead = trig.base => C15_Out[i] = line

\* C15 as claimed: besides the agreed parts, a later line with any other
\* leading whitespace has that whitespace replaced by exactly the base
\* indentation.
C15_Original ==
    C15_Done =>
        /\ C15_Agreed
        /\ \A i \in 2..Len(C15_In) :
             LET line == C15_In[i]
                 lead == LeadingWhitespace(line)
             IN  (lead # << >> /\ lead # trig.base)
                    => C15_Out[i] = trig.base \o TrimLeft(line)

\* C15 as amended: a later non-blank line with other leading whitespace is
\* unchanged when it starts with the base indentation, and has its leading
\* whitespace replaced by exactly the base indentation when it does not; a
\* later whitespace-only line is unchanged.
C15_ReindentLines ==
    C15_Done =>
        /\ C15_Agreed
        /\ \A i \in 2..Len(C15_In) :
             LET line == C15_In[i]
                 lead == LeadingWhitespace(line)
             IN  /\ Trim(line) = << >> => C15_Out[i] = line
                 /\ (Trim(line) # << >> /\ lead # << >> /\ lead # trig.base) =>
                       IF StartsWith(line, trig.base)
                       THEN C15_Out[i] = line
                       ELSE C15_Out[i] = trig.base \o TrimLeft(line)

\* A later line indented otherwise than the base had its indentation replaced.
C15_Witness ==
    /\ C15_Done
    /\ \E i \in 2..Len(C15_In) :
         /\ Trim(C15_In[i]) # << >>
         /\ LeadingWhitespace(C15_In[i]) # << >>
         /\ ~StartsWith(C15_In[i], trig.base)
         /\ C15_Out[i] = trig.base \o TrimLeft(C15_In[i])
         /\ C15_Out[i] # C15_In[i]

C16_Done == trig.phase = "done" /\ trig.policy = "scope"

\* No block-opening line with a smaller indentation than the cursor line
\* among the lines walked backward from the cursor.
C16_NoOpenerWalked ==
    \A j \in 0..trig.positionLine :
        trig.positionLine - j <= ScopeFallbackLines =>
            ~ ( /\ IndentOf(trig.lines[j + 1]) < trig.currentIndent
                /\ isBlockStart(trig.lang, Trim(trig.lines[j + 1])) )

\* C16: with no block opener found, getCurrentScope returns the last 30 lines
\* up to the cursor, or all the lines when there are fewer than 30.
C16_FallbackLast30 ==
    (C16_Done /\ C16_NoOpenerWalked) =>
        trig.scopeLines =
            LinesFromTo(trig.lines,
                IF trig.positionLine + 1 >= ScopeFallbackLines
                THEN trig.positionLine + 1 - ScopeFallbackLines
                ELSE 0,
                trig.positionLine)

\* C17: getCurrentScope terminates; it examines no line more than 30 lines
\* above the cursor line, and its result is made of the lines from one of
\* those down to the cursor line.
C17_ScopeBoundedAndTerminates ==
    /\ [] ( trig.policy = "scope" =>
              /\ trig.positionLine - trig.lowest <= ScopeFallbackLines
              /\ Len(trig.scopeLines) <= ScopeFallbackLines + 1
              /\ trig.scopeLines =
                    LinesFromTo(trig.lines,
                        trig.positionLine + 1 - Len(trig.scopeLines),
                        trig.positionLine) )
    /\ <> (trig.phase = "done")

\* The walk went 30 lines up from a cursor more than 30 lines into the text
\* and stopped there.
C17_Witness ==
    /\ C16_Done
    /\ trig.positionLine > ScopeFallbackLines
    /\ trig.positionLine - trig.lowest = ScopeFallbackLines
    /\ Len(trig.scopeLines) = ScopeFallbackLines + 1

C18_Done == trig.phase = "done" /\ trig.policy = "context"

\* The sections joined with a blank line between two of them.
RECURSIVE C18_JoinBlank(_)
C18_JoinBlank(sections) ==
    IF Len(sections) = 0 THEN << >>
    ELSE IF Len(sections) = 1 THEN sections[1]
    ELSE sections[1] \o << Newline, Newline >> \o C18_JoinBlank(Tail(sections))

\* C18: the context text of either provider is made of the non-empty ones
\* among imports, project context, enclosing scope and immediate window, in
\* that order, with a blank line between consecutive sections.
C18_BundleShape ==
    C18_Done =>
        trig.contextText =
            C18_JoinBlank(SelectSeq(<< trig.importStatements, trig.projectContext,
                                       trig.currentScope, trig.immediateContext >>,
                                    LAMBDA sec : sec # << >>))

C19_LineCount(text) == Len(Split(text))

\* C19: the context text stays within the configured budget (the
\* contextLineCount lines before the cursor line and the cursor line, or
\* contextTokenCount characters), and it ends with the text next to the cursor.
C19_BundleWithinBudget ==
    (C18_Done /\ trig.provider = "inline") =>
        /\ \/ C19_LineCount(trig.contextText) <= trig.cfg.contextLineCount + 1
           \/ Len(trig.contextText) <= trig.cfg.contextTokenCount
        /\ EndsWith(trig.contextText,
                    Substring0(trig.lines[trig.positionLine + 1], trig.character))

NoCompletion == {"empty", "null"}

\* C11: in either version, a completion request whose token is cancelled
\* after the upstream answer arrived and before the provider resumed returns
\* an empty result to the editor.
C11_CancelAfterResponseDiscards ==
    ( /\ inflight.at = "returned"
      /\ inflight.mode \in {"inline", "multiline"}
      /\ inflight.answer = "text"
      /\ inflight.cancelledAt = "answered" )
        => inflight.result \in NoCompletion

\* C12: a request whose upstream call failed has made exactly that one
\* upstream call, and once it has returned its pipeline delivered the failure
\* to its caller: no completion text, no empty success.
C12_FailurePropagatesNoRetry ==
    inflight.answer = "error" =>
        /\ inflight.calls = 1
        /\ inflight.at = "returned" => inflight.delivered = "thrown"

C12_Witness ==
    /\ inflight.at = "returned"
    /\ inflight.answer = "error"
    /\ inflight.mode = "inline"
    /\ build = "current"
    /\ inflight.delivered = "thrown"

\* C13: a request made while the configured key is missing or blank issues no
\* upstream call and yields no completion.
C13_BlankKeyNoUpstream ==
    inflight.blank =>
        /\ inflight.calls = 0
        /\ inflight.result \notin {"items", "shown"}

\* C20: a completion request of the current version whose token is cancelled
\* during context assembly or during the debounce delay issues no upstream
\* call and returns an empty result.
C20_CancelledBeforeUpstream ==
    (build = "current" /\ inflight.cancelledAt \in {"context", "debounce"}) =>
        /\ inflight.calls = 0
        /\ inflight.at = "returned" => inflight.result \in NoCompletion

\* C28: applyIndentation returns as many lines as it was given, the first
\* line and the whitespace-only lines as they were, every other line starting
\* with the base indentation, and a later line that already started with it
\* unchanged; applied to its own result with the same base indentation it
\* returns that result.
C28_IndentationPostcondition ==
    C15_Done =>
        /\ Len(C15_Out) = Len(C15_In)
        /\ C15_Out[1] = C15_In[1]
        /\ \A i \in 2..Len(C15_In) :
             /\ Trim(C15_In[i]) = << >> => C15_Out[i] = C15_In[i]
             /\ Trim(C15_In[i]) # << >> => StartsWith(C15_Out[i], trig.base)
             /\ (Trim(C15_In[i]) # << >> /\ StartsWith(C15_In[i], trig.base))
                    => C15_Out[i] = C15_In[i]
        /\ applyIndentation(trig.result, trig.base) = trig.result

\* A suggestion with a later line indented deeper than a non-empty base
\* indentation: the line came back as it was.
C28_Witness ==
    /\ C15_Done
    /\ trig.base # << >>
    /\ \E i \in 2..Len(C15_In) :
         /\ Trim(C15_In[i]) # << >>
         /\ StartsWith(C15_In[i], trig.base)
         /\ LeadingWhitespace(C15_In[i]) # trig.base
         /\ C15_Out[i] = C15_In[i]

\* C29: the result of sanitizeCompletion on one fenced code block, with or
\* without a paragraph after it, holds no fence.
C29_NoFenceLeft ==
    (trig.phase = "done" /\ trig.policy = "sanitize")
        => IndexOf(trig.once, Fence) < 0

\* What the heuristics report to the handler: they read the cursor line of
\* the document as it is when getContextData resumes.
C30_InCommentOrString ==
    \/ isPositionInComment(trig.lang, trig.liveLine, trig.character)
    \/ isPositionInString(trig.lang, trig.liveLine, trig.character)

\* C30: with the cursor inside a comment or a string, as the heuristics
\* report it, the multi-line handler returns before the model request, on an
\* automatic and on an explicit trigger alike; the handler reads neither
\* skipInComments nor skipInStrings.
C30_NoMultilineInCommentOrString ==
    (trig.phase = "done" /\ trig.policy = "multiline" /\ C30_InCommentOrString)
        => trig.outcome = "null"

\* An explicit trigger at an appropriate location was turned down only
\* because the cursor is inside a comment or a string.
C30_Witness ==
    /\ trig.phase = "done"
    /\ trig.policy = "multiline"
    /\ trig.kind = Invoke
    /\ C30_InCommentOrString
    /\ isAppropriateMultilineLocation(trig.lang, trig.line)
    /\ trig.outcome = "null"

\* The marker t stands in line s at offset i (counted from 0).
C22_At(s, t, i) ==
    /\ i >= 0
    /\ i + Len(t) <= Len(s)
    /\ SubSeq(s, i + 1, i + Len(t)) = t

\* The marker t starts somewhere before column character.
C22_MarkerBefore(line, t, character) ==
    \E i \in 0..(character - 1) : C22_At(line, t, i)

\* The cursor is inside a span opened by <!-- before it and not closed by a
\* --> between that opener and the cursor.
C22_InOpenSpan(line, character) ==
    \E s \in 0..(character - 1) :
        /\ C22_At(line, CommentOpen, s)
        /\ ~\E e \in (s + 1)..character : C22_At(line, CommentClose, e)

\* C22: isPositionInComment is true exactly when, for a // language, a //
\* starts before the cursor column; for a # language, a # does; for html and
\* xml, the cursor is inside a <!-- span not closed before it, also when an
\* earlier span on the line is closed; and never for another language.
C22_PositionInComment ==
    (trig.phase = "done" /\ trig.policy = "comment") =>
        trig.inComment =
            IF trig.lang \in SlashCommentLangs
            THEN C22_MarkerBefore(trig.line, << "/", "/" >>, trig.character)
            ELSE IF trig.lang \in HashCommentLangs
            THEN C22_MarkerBefore(trig.line, << "#" >>, trig.character)
            ELSE IF trig.lang \in MarkupLangs
            THEN C22_InOpenSpan(trig.line, trig.character)
            ELSE FALSE

\* C21: getCurrentScope returns for every language, document and cursor, the
\* cursor line and column outside the text included: it never throws.
C21_ScopeNeverThrows ==
    (trig.phase = "done" /\ trig.policy = "range") => trig.outcome = "returns"

\* C24: an entry of the suggestion cache, once written, is neither removed
\* nor overwritten with another value by any sequence of requests.
C24_CachedValueStable ==
    [][ \A p \in Prompts :
          suggestionCache[p] # NoValue => suggestionCache'[p] = suggestionCache[p] ]_vars

C23_Completion == inflight.mode \in {"inline", "multiline"}

\* C23: a failed upstream call for a prompt leaves the suggestion cache as it
\* was: no step taken from the failed answer on changes the cache, and the
\* prompt still has no entry when the request has returned, so the next
\* lookup of that prompt misses again.
C23_FailureLeavesCache ==
    /\ []( (C23_Completion /\ inflight.answer = "error")
              => suggestionCache[inflight.prompt] = NoValue )
    /\ [][ (C23_Completion /\ inflight.answer = "error")
              => suggestionCache' = suggestionCache ]_vars

\* A request has returned after its upstream call failed, and its prompt has
\* no entry.
C23_Witness ==
    /\ C23_Completion
    /\ inflight.at = "returned"
    /\ inflight.answer = "error"
    /\ inflight.calls = 1
    /\ suggestionCache[inflight.prompt] = NoValue

\* C25: a completion request cancelled after its upstream call was issued,
\* whose call then answers, has that answer stored under its prompt, and in
\* the current version returns an empty result; and an upstream call is only
\* ever under way for a prompt the cache has no entry for, so a later request
\* for the stored prompt is served from the cache.
C25_CancelledStillCaches ==
    /\ ( /\ C23_Completion
         /\ inflight.at = "returned"
         /\ inflight.answer = "text"
         /\ inflight.cancelledAt \in {"upstream", "answered"} )
          => /\ suggestionCache[inflight.prompt] = inflight.value
             /\ build = "current" => inflight.result \in NoCompletion
    /\ (C23_Completion /\ inflight.at \in {"debounce", "upstream", "answered"})
          => suggestionCache[inflight.prompt] = NoValue

\* A cancelled request of the current version has returned empty with its
\* answer in the cache.
C25_Witness ==
    /\ build = "current"
    /\ C23_Completion
    /\ inflight.at = "returned"
    /\ inflight.answer = "text"
    /\ inflight.cancelledAt = "upstream"
    /\ inflight.result \in NoCompletion
    /\ suggestionCache[inflight.prompt] = inflight.value


\* C26: under activate, enable, disable, configuration changes and
\* deactivate in any order, the multi-line and the code-actions provider are
\* registered only while the inline provider is, the editor holds at most
\* one undisposed registration of each provider, and a step that leaves the
\* inline provider as it was (enable while enabled, disable while disabled)
\* changes no registration. In the current version a variable holds a
\* registration exactly while the editor has it; the first version keeps the
\* registration its deactivate disposed.
C26_RegistrationInvariant ==
    /\ [](/\ (multilineProviderDisposable \/ codeActionsDisposable)
                => providerDisposable
          /\ (live.multiline > 0 \/ live.codeActions > 0) => live.inline > 0
          /\ live.inline <= 1
          /\ build = "current"
                => live.inline = (IF providerDisposable THEN 1 ELSE 0)
          /\ live.multiline = (IF multilineProviderDisposable THEN 1 ELSE 0)
          /\ live.codeActions = (IF codeActionsDisposable THEN 1 ELSE 0))
    /\ [][ /\ (build = "current" /\ providerDisposable' = providerDisposable)
               => /\ live' = live
                  /\ multilineProviderDisposable' = multilineProviderDisposable
                  /\ codeActionsDisposable' = codeActionsDisposable
           /\ ( \/ enableExtension /\ providerDisposable
                \/ disableExtension /\ ~providerDisposable )
               => /\ live' = live
                  /\ providerDisposable' = providerDisposable ]_vars

\* The inline provider registered again by enable, after a disable and a
\* change of the switches that turned the multi-line provider off.
C26_Witness ==
    /\ providerDisposable
    /\ live.inline = 1
    /\ ~multilineProviderDisposable
    /\ codeActionsDisposable
    /\ statusBar.text = DisabledText
    /\ build = "current"

\* C27: while the current version is active, the status bar item shows the
\* disabled indicator exactly when the inline provider is not registered.
C27_IndicatorAgrees ==
    (build = "current" /\ ~statusBar.disposed)
        => (IsDisabledText(statusBar.text) <=> ~providerDisposable)

=============================================================================
